---- MODULE Spec2Model ----
(***************************************************************************)
(* Model of the proactive-dialogue plugin: the inactivity poller           *)
(* (InitiativeDialogueCore._check_inactive_conversations_loop), the        *)
(* delayed tasks of TaskManager.schedule_task, the send action             *)
(* (InitiativeDialogueCore._send_initiative_message together with          *)
(* MessageManager.generate_and_send_message) and the inbound message       *)
(* handler (InitiativeDialogue.on_private_message).                        *)
(*                                                                         *)
(* The program runs on one asyncio event loop: code between two awaits     *)
(* that really suspend is one atomic step.  Each action below is one such  *)
(* step.  Time is the wall clock in seconds, advanced in steps of the      *)
(* poller's sleep.                                                         *)
(***************************************************************************)
EXTENDS Integers, Sequences, FiniteSets, TLC

(* ------------------------------------------------------------------ *)
(* Bounds of the model                                                 *)
(* ------------------------------------------------------------------ *)

\* number of clock steps explored
MaxSteps == 3

(* ------------------------------------------------------------------ *)
(* Configuration and program constants                                 *)
(* ------------------------------------------------------------------ *)

\* asyncio.sleep(30) of the poller loop; also the step of the modelled clock
PollSleepSeconds == 30

\* time_settings.inactive_time_seconds
inactive_time_seconds == 30

\* time_settings.max_response_delay_seconds
max_response_delay_seconds == 60

\* time_settings.max_consecutive_messages
max_consecutive_messages == 2

\* time_settings.time_limit_enabled, activity_start_hour, activity_end_hour
time_limit_enabled == TRUE
activity_start_hour == 8
activity_end_hour == 23

\* the hours datetime.now().hour is drawn from: both sides of both ends
HourSamples == {7, 8, 22, 23}

\* whitelist.enabled and whitelist.user_ids
whitelist_enabled == TRUE
whitelist_users == {"u1"}

\* daily_greetings.morning_hour, morning_minute, night_hour, night_minute
morning_hour == 8
morning_minute == 0
night_hour == 23
night_minute == 0

\* the account id of the bot itself (event.message_obj.self_id)
BotId == "bot"
Users == {"u1"}
\* every id get_sender_id() can return
Senders == Users \cup {BotId}

None == "None"

(* ------------------------------------------------------------------ *)
(* State                                                               *)
(* ------------------------------------------------------------------ *)
VARIABLES
    now,                        \* datetime.datetime.now(), in seconds
    user_records,               \* dict in insertion order: Seq of records
    consecutive_message_count,  \* dict user_id -> int
    last_initiative_types,      \* dict user_id -> [count]
    users_received_initiative,  \* set of user_id
    message_tasks,              \* parent._message_tasks: task_id -> task
    poller,                     \* the poller coroutine: [status, wake], and held:
                                \* inactive_check_task is not None
    just_reset,                 \* history: users whose last step was a reset
    detached_tasks,             \* tasks of the event loop the registry does not hold
    cancel_returned,            \* what the last call of cancel_task returned
    cancel_calls,               \* calls of cancel_task and cancel_all_tasks so far
    terminated,                 \* terminate() has completed
    greeting_task,              \* DailyGreetings.greeting_task: [status, wake]
    morning_triggered,          \* DailyGreetings.morning_triggered
    night_triggered,            \* DailyGreetings.night_triggered
    today_morning_users,        \* DailyGreetings.today_morning_users
    today_night_users,          \* DailyGreetings.today_night_users
    daily_task,                 \* RandomDailyActivities.daily_task: [status, wake]
    last_sharing_time,          \* RandomDailyActivities.last_sharing_time
    last_share_sent,            \* history: user_id -> when a share was last delivered
    fn_call,                    \* a call of a function of the plugin: name and arguments
    fn_result,                  \* what the call returned
    last_initiative_messages,   \* dict user_id -> record of the last nudge
    data_file,                  \* umo_storage.json: absent, cut short or complete
    storage_pc,                 \* where the plugin is between load and save
    storage_log,                \* what load and save have logged
    last_check_date,            \* DailyGreetings.last_check_date, in days
    night_time,                 \* DailyGreetings.night_hour and night_minute
    nudge_log                   \* history of the nudges: deliveries and replies

\* the state of the task registry at large, of shutdown and of the two other
\* schedulers
quiet_vars == <<detached_tasks, cancel_returned, cancel_calls, terminated,
                greeting_task,
                morning_triggered, night_triggered, today_morning_users,
                today_night_users, daily_task, last_sharing_time,
                last_share_sent, fn_call, fn_result,
                last_initiative_messages, data_file, storage_pc, storage_log,
                last_check_date, night_time>>

\* the same with the history of the nudges
engine_vars == <<quiet_vars, nudge_log>>

vars == <<now, user_records, consecutive_message_count, last_initiative_types,
          users_received_initiative, message_tasks, poller, just_reset,
          engine_vars>>

(* ------------------------------------------------------------------ *)
(* dict helpers                                                        *)
(* ------------------------------------------------------------------ *)

\* d.get(k, default)
DictGet(d, k, default) == IF k \in DOMAIN d THEN d[k] ELSE default

\* d[k] = v
DictSet(d, k, v) == [x \in (DOMAIN d) \cup {k} |-> IF x = k THEN v ELSE d[x]]

\* d.pop(k, None)
DictPop(d, k) == [x \in (DOMAIN d) \ {k} |-> d[x]]

\* the keys of user_records
RecordKeys(recs) == {recs[i].user_id : i \in 1..Len(recs)}

\* user_records[u]
RecordOf(recs, u) == recs[CHOOSE i \in 1..Len(recs) : recs[i].user_id = u]

\* user_records[u] = r : an existing key keeps its place, a new key goes last
PutRecord(recs, r) ==
    IF r.user_id \in RecordKeys(recs)
    THEN [i \in 1..Len(recs) |-> IF recs[i].user_id = r.user_id THEN r ELSE recs[i]]
    ELSE Append(recs, r)

\* user_records.pop(u, None)
PopRecord(recs, u) == SelectSeq(recs, LAMBDA r : r.user_id # u)


(* ------------------------------------------------------------------ *)
(* TaskManager.schedule_task                                           *)
(* ------------------------------------------------------------------ *)

\* random.randint(min_delay, max_delay): the values it can return
RandomDelays(min_delay, max_delay) == min_delay..max_delay

\* actual_delay of schedule_task: delay_minutes, or with random_delay what
\* random.randint(min_delay, max_delay) can return (nothing when max_delay is
\* below min_delay: randint raises ValueError and no task is created)
actual_delays(delay_minutes, random_delay, min_delay, max_delay) ==
    IF random_delay THEN RandomDelays(min_delay, max_delay) ELSE {delay_minutes}

\* await asyncio.sleep(actual_delay * 60): the seconds delayed_task sleeps
SleepSeconds(actual_delay) == actual_delay * 60

\* minutes of the longest delay, rounded up to the next whole minute
nudge_max_delay_rounded_up(seconds) == (seconds + 59) \div 60

\* int(seconds / 60): int() cuts the quotient off towards zero
nudge_max_delay(seconds) ==
    IF seconds >= 0 THEN seconds \div 60 ELSE 0 - ((0 - seconds) \div 60)

\* max_delay=int(self.max_response_delay_seconds / 60)
NudgeMaxDelay == nudge_max_delay(max_response_delay_seconds)

\* task_id = f"initiative_{user_id}_{int(now.timestamp())}"
InitiativeTaskId(user_id, t) == <<"initiative", user_id, t>>

\* the task object created by asyncio.create_task(delayed_task()): it sleeps
\* actual_delay * 60 seconds and then awaits coroutine_func(**kwargs).
\* replied, overtaken, raced and fresh are history fields: replied and raced
\* are set by ReplyHistory, overtaken by OvertakePending, and fresh tells that
\* the task fired right after a reset.  started tells that the task has taken
\* its first step (until then the event loop has it in its ready queue),
\* must_cancel that task.cancel() was called and CancelledError is still to be
\* thrown into it, segments counts the messages its action has sent, ended
\* tells how the task finished, and cancelled_early (history) that cancel_task
\* reached the task before its delay had elapsed.
NewTask(user_id, actual_delay) ==
    [pc |-> "sleeping", wake |-> now + actual_delay * 60, user_id |-> user_id,
     next_count |-> 0, replied |-> -1, overtaken |-> FALSE, raced |-> FALSE,
     fresh |-> FALSE, delay |-> actual_delay, started |-> FALSE,
     must_cancel |-> FALSE, segments |-> 0, ended |-> None,
     cancelled_early |-> FALSE]

\* self.parent._message_tasks[task_id] = task
ScheduleTask(tasks, task_id, user_id, actual_delay) ==
    DictSet(tasks, task_id, NewTask(user_id, actual_delay))

(* ------------------------------------------------------------------ *)
(* The poller: _check_inactive_conversations_loop                      *)
(* ------------------------------------------------------------------ *)

\* an inclusive end of the active hours
OutsideActiveHoursInclusive(current_hour) ==
    time_limit_enabled
    /\ ~(activity_start_hour <= current_hour /\ current_hour <= activity_end_hour)

\* not (activity_start_hour <= current_hour < activity_end_hour)
OutsideActiveHours(current_hour) ==
    time_limit_enabled
    /\ ~(activity_start_hour <= current_hour /\ current_hour < activity_end_hour)

\* a test of the whitelist that lets every user pass
WhitelistSkipsNobody(user_id) == FALSE

\* if self.whitelist_enabled and user_id not in self.whitelist_users: continue
WhitelistSkips(user_id) == whitelist_enabled /\ user_id \notin whitelist_users

\* if current_count >= self.max_consecutive_messages: continue
PollerCapSkips(current_count) == current_count >= max_consecutive_messages

\* if inactive_seconds >= self.inactive_time_seconds
InactiveLongEnough(last_active) == now - last_active >= inactive_time_seconds

\* a poller that leaves the record of a scheduled user in place
RemoveScheduledForgotten(recs, user_id) == recs

\* self.user_records.pop(user_id, None) after the task was scheduled
RemoveScheduled(recs, user_id) == PopRecord(recs, user_id)

\* The for loop over list(self.user_records.items()), from item i on.  recs and
\* tasks are user_records and _message_tasks as the earlier iterations left
\* them; delays gives the random delay drawn for each user.  raised tells that
\* an iteration raised (now - last_active on a timestamp that is no datetime,
\* or record["conversation_id"] on a record without that key): the loop is
\* left at once, and what earlier iterations did stays done.
RECURSIVE ScanRecords(_, _, _, _, _)
ScanRecords(snapshot, i, recs, tasks, delays) ==
    IF i > Len(snapshot)
    THEN [user_records |-> recs, message_tasks |-> tasks, raised |-> FALSE]
    ELSE
      LET record == snapshot[i]
          user_id == record.user_id
          current_count == DictGet(consecutive_message_count, user_id, 0)
          skip == ScanRecords(snapshot, i + 1, recs, tasks, delays)
          raise == [user_records |-> recs, message_tasks |-> tasks, raised |-> TRUE]
      IN  IF WhitelistSkips(user_id) THEN skip
          ELSE IF PollerCapSkips(current_count) THEN skip
          ELSE IF record.shape = "no_timestamp" THEN skip
          ELSE IF record.shape = "bad_timestamp" THEN raise
          ELSE IF InactiveLongEnough(record.timestamp)
               THEN IF record.shape = "no_conversation_id" THEN raise
                    ELSE ScanRecords(snapshot, i + 1,
                            RemoveScheduled(recs, user_id),
                            ScheduleTask(tasks, InitiativeTaskId(user_id, now),
                                         user_id, delays[user_id]),
                            delays)
          ELSE skip

\* what the coroutine does with an exception of a tick: the try statement encloses
\* the while loop, so "except Exception" is reached with the loop already left
AfterTick(raised) ==
    IF raised THEN [poller EXCEPT !.status = "ended"]
    ELSE [poller EXCEPT !.status = "running", !.wake = now + PollSleepSeconds]

\* One wake-up of the loop: asyncio.sleep(30) has returned, and the loop body
\* runs up to the next sleep (schedule_task never suspends).
PollerTick(current_hour, delays) ==
    /\ poller.status = "running"
    /\ now >= poller.wake
    /\ IF OutsideActiveHours(current_hour)
       THEN /\ poller' = AfterTick(FALSE)
            /\ UNCHANGED <<user_records, message_tasks>>
       ELSE LET r == ScanRecords(user_records, 1, user_records, message_tasks, delays)
            IN  /\ user_records' = r.user_records
                /\ message_tasks' = r.message_tasks
                /\ poller' = AfterTick(r.raised)
    /\ UNCHANGED <<now, consecutive_message_count, last_initiative_types,
                   users_received_initiative, just_reset>>

\* stop_checking_inactive_conversations: a task that is held and not done is
\* cancelled at its sleep and awaited, and inactive_check_task is set to None;
\* a task that is done stays held
PollerStopped(p) ==
    IF p.held /\ p.status = "running"
    THEN [p EXCEPT !.status = "cancelled", !.held = FALSE]
    ELSE p

\* stop_checking_inactive_conversations while the loop runs
StopChecking ==
    /\ poller.status = "running"
    /\ poller' = PollerStopped(poller)
    /\ UNCHANGED <<now, user_records, consecutive_message_count,
                   last_initiative_types, users_received_initiative,
                   message_tasks, just_reset>>


(* ------------------------------------------------------------------ *)
(* The send action: _send_initiative_message                           *)
(* ------------------------------------------------------------------ *)

\* lines 258-270: the count of last_initiative_types when the user has an
\* entry there, else consecutive_message_count.get(user_id, 0)
ReadCurrentCount(user_id) ==
    IF user_id \in DOMAIN last_initiative_types
    THEN last_initiative_types[user_id].count
    ELSE DictGet(consecutive_message_count, user_id, 0)

\* a send action that skips a count
NextCountSkips(current_count) == current_count + 2

\* next_count = current_count + 1
NextCount(current_count) == current_count + 1

\* a cap check that lets one message too many through
DeniedOffByOne(next_count) == next_count > max_consecutive_messages + 1

\* if next_count > self.max_consecutive_messages: return
Denied(next_count) == next_count > max_consecutive_messages

\* delayed_task returns, and its done callback remove_task pops the entry of
\* the task (the callback is modelled in the step that ends the task)
FinishTask(tasks, task_id) == DictPop(tasks, task_id)

\* The delay of delayed_task has elapsed and coroutine_func is entered: it runs
\* from the whitelist check to the first await of generate_and_send_message.
SendFire(task_id) ==
    /\ task_id \in DOMAIN message_tasks
    /\ message_tasks[task_id].pc = "sleeping"
    /\ now >= message_tasks[task_id].wake
    /\ LET task == message_tasks[task_id]
           user_id == task.user_id
           next_count == NextCount(ReadCurrentCount(user_id))
           returns == WhitelistSkips(user_id) \/ Denied(next_count)
       IN  /\ message_tasks' =
                 IF returns THEN FinishTask(message_tasks, task_id)
                 ELSE [message_tasks EXCEPT ![task_id].pc = "generating",
                                            ![task_id].next_count = next_count,
                                            ![task_id].fresh = user_id \in just_reset]
           /\ just_reset' = just_reset \ {user_id}
    /\ UNCHANGED <<now, user_records, consecutive_message_count,
                   last_initiative_types, users_received_initiative, poller>>

\* what generate_and_send_message can do
Outcomes == {"sent", "no_conversation", "empty_completion", "exception"}

\* the value generate_and_send_message returns: True after the message was
\* sent, False in the three other cases
GenerateResult(outcome) == IF outcome = "sent" THEN "True" ELSE "False"

\* if result is None: return
FailureDetected(result) == result = None

\* a send action that leaves the mark to generate_and_send_message
MarkReceivedSkipped(received, user_id) == received

\* self.users_received_initiative.add(user_id), after the counts were written
MarkReceived(received, user_id) == received \cup {user_id}

\* lines 397-404: the record is put back while the cap is not reached
RearmMonitoring(recs, user_id, next_count) ==
    IF next_count < max_consecutive_messages
    THEN PutRecord(recs, [user_id |-> user_id, timestamp |-> now, shape |-> "ok"])
    ELSE recs

\* History of a send action that has written the count of the user: the tasks
\* of the user that sleep since a reply remember that a send action ended
\* between the reply and their firing (overtaken).
OvertakePending(tasks, user_id) ==
    [id \in DOMAIN tasks |->
        IF tasks[id].user_id = user_id /\ tasks[id].pc = "sleeping"
           /\ tasks[id].replied >= 0
        THEN [tasks[id] EXCEPT !.overtaken = TRUE]
        ELSE tasks[id]]

\* generate_and_send_message returns and _send_initiative_message runs to its
\* end: nothing suspends between the return and the last update.
SendComplete(task_id, outcome) ==
    /\ task_id \in DOMAIN message_tasks
    /\ message_tasks[task_id].pc = "generating"
    /\ LET task == message_tasks[task_id]
           user_id == task.user_id
           next_count == task.next_count
           result == GenerateResult(outcome)
           marked == IF outcome = "sent"
                     THEN users_received_initiative \cup {user_id}
                     ELSE users_received_initiative
       IN  /\ IF FailureDetected(result)
              THEN /\ users_received_initiative' = marked
                   /\ message_tasks' = FinishTask(message_tasks, task_id)
                   /\ UNCHANGED <<consecutive_message_count, last_initiative_types,
                                  user_records>>
              ELSE /\ consecutive_message_count' =
                          DictSet(consecutive_message_count, user_id, next_count)
                   /\ last_initiative_types' =
                          DictSet(last_initiative_types, user_id, [count |-> next_count])
                   /\ users_received_initiative' = MarkReceived(marked, user_id)
                   /\ user_records' = RearmMonitoring(user_records, user_id, next_count)
                   /\ message_tasks' =
                          OvertakePending(FinishTask(message_tasks, task_id), user_id)
           /\ just_reset' = just_reset \ {user_id}
    /\ UNCHANGED <<now, poller>>


(* ------------------------------------------------------------------ *)
(* Inbound private messages: on_private_message                        *)
(* ------------------------------------------------------------------ *)

\* message_str is a sequence of tokens: " " is white space, "word" any other
\* text, and the two markers the handler looks for are tokens of their own
\* ("[SYS_DIRECTIVE:" stands for the marker the source writes in Chinese).
\* The texts events are drawn from: empty, white space only, plain text, and
\* text that holds one of the markers.
MessageStrs ==
    {<<>>, <<" ", " ">>, <<" ", "word", " ">>,
     <<"word", "[SYS_PROMPT]">>, <<"[SYS_DIRECTIVE:", "word">>}

\* an event: its text, get_sender_id(), and message_obj.self_id (None when the
\* event carries none)
Events == [message_str : MessageStrs, sender_id : Senders, self_id : {BotId, None}]

\* not event.message_str or not event.message_str.strip()
IsBlank(message_str) == \A i \in 1..Len(message_str) : message_str[i] = " "

\* if self_id and sender_id == self_id
IsEcho(sender_id, self_id) == self_id # None /\ sender_id = self_id

\* a filter that knows the older marker only
HasSystemMarkerOld(message_str) ==
    \E i \in 1..Len(message_str) : message_str[i] = "[SYS_PROMPT]"

\* "[SYS_PROMPT]" in event.message_str or "[SYS_DIRECTIVE:" in event.message_str
HasSystemMarker(message_str) ==
    \E i \in 1..Len(message_str) : message_str[i] \in {"[SYS_PROMPT]", "[SYS_DIRECTIVE:"}

\* the three early returns of on_private_message
Filtered(event) ==
    \/ IsBlank(event.message_str)
    \/ IsEcho(event.sender_id, event.self_id)
    \/ HasSystemMarker(event.message_str)

\* handle_user_message: self.user_records[user_id] = {...}
RefreshRecord(recs, user_id) ==
    PutRecord(recs, [user_id |-> user_id, timestamp |-> now, shape |-> "ok"])

\* a handler that leaves the count as it is
ResetCountSkipped(counts, user_id) == counts

\* self.dialogue_core.consecutive_message_count[user_id] = 0
ResetCount(counts, user_id) == DictSet(counts, user_id, 0)

\* a handler that resets consecutive_message_count only
ResetLastTypeSkipped(types, user_id) == types

\* lines 171-174: old_info["count"] = 0 when the user has an entry
ResetLastType(types, user_id) ==
    IF user_id \in DOMAIN types
    THEN [types EXCEPT ![user_id].count = 0]
    ELSE types

\* History of a reset that met tasks of the user: a sleeping task remembers the
\* count the reply found (replied), a task suspended in generate_and_send_message
\* remembers that the reset happened under it (raced).
ReplyHistory(tasks, user_id, old_count) ==
    [id \in DOMAIN tasks |->
        IF tasks[id].user_id # user_id THEN tasks[id]
        ELSE IF tasks[id].pc = "sleeping"
             THEN [tasks[id] EXCEPT !.replied = old_count, !.overtaken = FALSE]
        ELSE IF tasks[id].pc = "generating" THEN [tasks[id] EXCEPT !.raced = TRUE]
        ELSE tasks[id]]

\* The handler of one event.  An event that is filtered returns at once.  Any
\* other suspends once, in get_curr_conversation_id, before it has read or
\* written anything of the state; from there to its end it runs unsuspended,
\* and that run is this step.
OnPrivateMessage(event) ==
    /\ IF Filtered(event)
       THEN UNCHANGED <<user_records, consecutive_message_count,
                        last_initiative_types, users_received_initiative,
                        message_tasks, just_reset>>
       ELSE LET user_id == event.sender_id
                old_count == DictGet(consecutive_message_count, user_id, 0)
            IN  /\ user_records' = RefreshRecord(user_records, user_id)
                /\ IF user_id \in users_received_initiative
                   THEN /\ consecutive_message_count' =
                               ResetCount(consecutive_message_count, user_id)
                        /\ last_initiative_types' =
                               ResetLastType(last_initiative_types, user_id)
                        /\ users_received_initiative' =
                               users_received_initiative \ {user_id}
                        /\ message_tasks' = ReplyHistory(message_tasks, user_id, old_count)
                        /\ just_reset' = just_reset \cup {user_id}
                   ELSE /\ just_reset' = just_reset \ {user_id}
                        /\ UNCHANGED <<consecutive_message_count, last_initiative_types,
                                       users_received_initiative, message_tasks>>
    /\ UNCHANGED <<now, poller>>

(* ------------------------------------------------------------------ *)
(* The clock, the initial state, the specification                     *)
(* ------------------------------------------------------------------ *)

\* a timer of the event loop has run out and its coroutine was not resumed yet
TimerDue ==
    \/ poller.status = "running" /\ now >= poller.wake
    \/ \E id \in DOMAIN message_tasks :
          message_tasks[id].pc = "sleeping" /\ now >= message_tasks[id].wake

\* The wall clock advances.  The event loop resumes a coroutine as soon as its
\* asyncio.sleep has run out, so the clock does not pass a timer that is due;
\* generate_and_send_message and the arrival of messages take any time.
Advance ==
    /\ now < MaxSteps * PollSleepSeconds
    /\ ~TimerDue
    /\ now' = now + PollSleepSeconds
    /\ UNCHANGED <<user_records, consecutive_message_count, last_initiative_types,
                   users_received_initiative, message_tasks, poller, just_reset>>

\* what a record of the stored file can look like once load_data_from_storage
\* has handled it: well formed, without the conversation_id key, with a
\* timestamp that is no string (it stays as it is), without timestamp
LoadedShapes == {"ok", "no_conversation_id", "bad_timestamp", "no_timestamp"}

\* user_records after load_data_from_storage: no file, or a file that holds
\* one record
LoadedRecords ==
    {<<>>} \cup {<<[user_id |-> u, timestamp |-> 0, shape |-> sh]>> :
                    u \in Senders, sh \in LoadedShapes}

\* DailyGreetings.__init__ on day 0 of the clock: last_check_date is the date
\* of the start, the night greeting is set to night_hour:night_minute
GreetingsNew ==
    /\ last_check_date = 0
    /\ night_time = [hour |-> night_hour, minute |-> night_minute]

\* nothing was delivered and nothing answered: delivered counts, for each
\* user, the nudges delivered since the last message of the user that was
\* handled, answered holds the ids of the tasks whose user has sent such a
\* message since the task was scheduled
NoNudgeLog == nudge_log = [delivered |-> <<>>, answered |-> {}]

\* no function is being called
NoCall ==
    /\ fn_call = [name |-> "none"]
    /\ fn_result = [of |-> "none"]

\* There is no stored file and nothing is loaded or saved.  Where only the
\* loops run, last_initiative_messages is told by last_initiative_types: the
\* send action writes both maps under the same key.
StorageIdle ==
    /\ last_initiative_messages = <<>>
    /\ data_file = [kind |-> "absent"]
    /\ storage_pc = [at |-> "loaded"]
    /\ storage_log = {}

\* the daily greetings are disabled (the default) and the daily shares are
\* switched off; nothing calls cancel_task, cancel_all_tasks or terminate
EngineIdle ==
    /\ detached_tasks = {}
    /\ cancel_returned = None
    /\ cancel_calls = 0
    /\ terminated = FALSE
    /\ greeting_task = [status |-> "disabled", wake |-> 0]
    /\ morning_triggered = FALSE
    /\ night_triggered = FALSE
    /\ today_morning_users = {}
    /\ today_night_users = {}
    /\ daily_task = [status |-> "disabled", wake |-> 0]
    /\ last_sharing_time = <<>>
    /\ last_share_sent = <<>>
    /\ GreetingsNew
    /\ NoNudgeLog
    /\ NoCall
    /\ StorageIdle

\* The state after __init__ and the start of the poller: the maps of a first
\* run, user_records as loaded, the poller in its first sleep.
Init ==
    /\ now = 0
    /\ user_records \in LoadedRecords
    /\ consecutive_message_count = <<>>
    /\ last_initiative_types = <<>>
    /\ users_received_initiative = {}
    /\ message_tasks = <<>>
    /\ poller = [status |-> "running", wake |-> PollSleepSeconds, held |-> TRUE]
    /\ just_reset = {}
    /\ EngineIdle

\* the steps of the poller, of the nudge tasks and of the message handler; none
\* of them touches engine_vars
Next ==
    \/ Advance /\ UNCHANGED engine_vars
    \/ \E current_hour \in HourSamples :
         \E delays \in [RecordKeys(user_records) -> RandomDelays(0, NudgeMaxDelay)] :
            PollerTick(current_hour, delays) /\ UNCHANGED engine_vars
    \/ StopChecking /\ UNCHANGED engine_vars
    \/ \E task_id \in DOMAIN message_tasks :
            SendFire(task_id) /\ UNCHANGED engine_vars
    \/ \E task_id \in DOMAIN message_tasks : \E outcome \in Outcomes :
            SendComplete(task_id, outcome) /\ UNCHANGED engine_vars
    \/ \E event \in Events : OnPrivateMessage(event) /\ UNCHANGED engine_vars

Spec == Init /\ [][Next]_vars


(* ------------------------------------------------------------------ *)
(* Claims                                                              *)
(* ------------------------------------------------------------------ *)

\* the tasks of a user that are in the registry
TasksOf(tasks, user_id) == {id \in DOMAIN tasks : tasks[id].user_id = user_id}

\* consecutive_message_count.get(user_id, 0)
CountOf(counts, user_id) == DictGet(counts, user_id, 0)

\* a step that is the handling of an event of user_id which was not filtered
HandlesMessageOf(user_id) ==
    \E event \in Events :
        /\ event.sender_id = user_id
        /\ ~Filtered(event)
        /\ OnPrivateMessage(event)

\* C1, first half: no count is above the cap
CountWithinCap ==
    \A u \in DOMAIN consecutive_message_count :
        consecutive_message_count[u] <= max_consecutive_messages

\* C1, second half: a task that fires for a user whose count is at the cap
\* returns at once (it never reaches generate_and_send_message, so it delivers
\* nothing) and leaves both counters as they are
DeniedAtCapStep ==
    \A id \in DOMAIN message_tasks :
        (SendFire(id)
         /\ CountOf(consecutive_message_count, message_tasks[id].user_id)
                = max_consecutive_messages)
        => /\ id \notin DOMAIN message_tasks'
           /\ consecutive_message_count' = consecutive_message_count
           /\ last_initiative_types' = last_initiative_types

\* C1: In every reachable state every user's consecutive_message_count is at
\* most max_consecutive_messages, and every firing of _send_initiative_message
\* for a user whose count equals the cap is denied: it returns without
\* delivering and without changing the count.  (A qualifying reply resets the
\* count to 0, and from then on the premise no longer holds.)
C1_CapNeverExceeded == []CountWithinCap /\ [][DeniedAtCapStep]_vars

\* C1 witness: the count of u1 is at the cap and a task of u1 is due
C1_Witness ==
    /\ CountOf(consecutive_message_count, "u1") = max_consecutive_messages
    /\ \E id \in TasksOf(message_tasks, "u1") :
          message_tasks[id].pc = "sleeping" /\ now >= message_tasks[id].wake

\* C2: When generate_and_send_message reports failure (conversation missing,
\* empty completion, exception), _send_initiative_message leaves
\* consecutive_message_count and last_initiative_types as they were.
C2_FailedDeliveryKeepsCount ==
    [][\A id \in DOMAIN message_tasks :
         \A outcome \in Outcomes \ {"sent"} :
            SendComplete(id, outcome)
            => /\ consecutive_message_count' = consecutive_message_count
               /\ last_initiative_types' = last_initiative_types]_vars

\* C3: An exception of a poller tick is caught and the loop goes on to later
\* ticks: the loop is left only when it is cancelled.
C3_PollerSurvivesTick == poller.status \in {"running", "cancelled"}


\* the tasks of user_id that a step adds to the registry
NewTasksOf(user_id) == TasksOf(message_tasks', user_id) \ DOMAIN message_tasks

\* a tracked user the poller has to nudge: whitelist passed, count below the
\* cap, a well-formed record whose time stamp is inactive_time_seconds old
DueForNudge(user_id) ==
    /\ user_id \in RecordKeys(user_records)
    /\ ~(whitelist_enabled /\ user_id \notin whitelist_users)
    /\ CountOf(consecutive_message_count, user_id) < max_consecutive_messages
    /\ RecordOf(user_records, user_id).shape = "ok"
    /\ now - RecordOf(user_records, user_id).timestamp >= inactive_time_seconds

\* a tick within the active hours that runs to its next sleep
ActiveTick ==
    /\ \E current_hour \in HourSamples :
         /\ ~OutsideActiveHours(current_hour)
         /\ \E delays \in [RecordKeys(user_records) -> RandomDelays(0, NudgeMaxDelay)] :
               PollerTick(current_hour, delays)
    /\ poller'.status = "running"

\* a step that ends a send action of user_id after generate_and_send_message
SendCompletesFor(user_id) ==
    \E id \in TasksOf(message_tasks, user_id) : \E outcome \in Outcomes :
        SendComplete(id, outcome)

\* C4, per step: a step adds at most one task of a user, and the step that adds
\* it removes the user's record; a tick schedules every user that is due; and a
\* record that was removed comes back only with a message of the user or with
\* the end of a send action to the user
ScheduleOnceStep ==
    \A u \in Senders :
        /\ Cardinality(NewTasksOf(u)) <= 1
        /\ NewTasksOf(u) # {}
           => u \in RecordKeys(user_records) /\ u \notin RecordKeys(user_records')
        /\ (ActiveTick /\ DueForNudge(u)) => NewTasksOf(u) # {}
        /\ (u \notin RecordKeys(user_records) /\ u \in RecordKeys(user_records'))
           => HandlesMessageOf(u) \/ SendCompletesFor(u)

C6_ResetLinearizable ==
    [][\A id \in DOMAIN message_tasks :
         (message_tasks[id].raced /\ SendComplete(id, "sent"))
         => consecutive_message_count'[message_tasks[id].user_id] \in {0, 1}]_vars

\* C7: A reset followed by the next successful firing of the send action for
\* the user, nothing else of the user in between, leaves the count at 1:
\* the task that fires right after the reset reads 0, and when its message
\* was sent it writes 1 to both counters.
C7_ResetThenAdvanceGivesOne ==
    [][\A id \in DOMAIN message_tasks :
         LET task == message_tasks[id] IN
         /\ (SendFire(id) /\ task.user_id \in just_reset /\ ~WhitelistSkips(task.user_id))
            => /\ id \in DOMAIN message_tasks'
               /\ message_tasks'[id].next_count = 1
         /\ (task.fresh /\ SendComplete(id, "sent"))
            => /\ consecutive_message_count'[task.user_id] = 1
               /\ last_initiative_types'[task.user_id].count = 1]_vars

\* C7 witness: the count of u1 is 1 and was written by a task that fired right
\* after a reset, or such a task is about to write it
C7_Witness ==
    \E id \in TasksOf(message_tasks, "u1") :
        message_tasks[id].pc = "generating" /\ message_tasks[id].fresh

\* C8: The step of the handler that refreshes the record of a user who is in
\* users_received_initiative is the step that resets the user's counters: no
\* tick of the poller can see the refreshed record with the count the reply
\* found.
C8_ResetWithRefresh ==
    [][\A u \in Senders :
         (u \in users_received_initiative /\ HandlesMessageOf(u))
         => /\ u \in RecordKeys(user_records')
            /\ RecordOf(user_records', u).timestamp = now
            /\ CountOf(consecutive_message_count', u) = 0
            /\ ReadCurrentCount(u)' = 0
            /\ u \notin users_received_initiative']_vars

\* C8 witness: u1 has just been reset and is tracked with the time of the reply
C8_Witness ==
    /\ "u1" \in just_reset
    /\ "u1" \in RecordKeys(user_records)
    /\ RecordOf(user_records, "u1").timestamp = now
    /\ now > 0

\* C9: While a user sends no qualifying message, the user's count never
\* decreases, whatever ticks and send actions do.
C9_CountMonotoneWhileSilent ==
    [][\A u \in Senders :
         ~HandlesMessageOf(u)
         => CountOf(consecutive_message_count', u)
               >= CountOf(consecutive_message_count, u)]_vars

\* what C10 calls a qualifying event: the text is not blank, the sender is not
\* the bot itself, the text holds none of the two markers
QualifyingAsClaimed(event) ==
    /\ \E i \in 1..Len(event.message_str) : event.message_str[i] # " "
    /\ event.sender_id # BotId
    /\ \A i \in 1..Len(event.message_str) :
          event.message_str[i] \notin {"[SYS_PROMPT]", "[SYS_DIRECTIVE:"}

\* the same with the test the handler can make: the sender differs from the
\* self id of the event, or the event carries no self id
QualifyingAsHandled(event) ==
    /\ \E i \in 1..Len(event.message_str) : event.message_str[i] # " "
    /\ (event.self_id = None \/ event.sender_id # event.self_id)
    /\ \A i \in 1..Len(event.message_str) :
          event.message_str[i] \notin {"[SYS_PROMPT]", "[SYS_DIRECTIVE:"}

\* a step sets the count of user_id to 0
SetsCountToZero(user_id) ==
    /\ consecutive_message_count' # consecutive_message_count
    /\ CountOf(consecutive_message_count', user_id) = 0

\* what C10 says of the handling of event, qualifying being a parameter
ResetExactlyWhen(event, qualifying) ==
    LET u == event.sender_id IN
    /\ SetsCountToZero(u) <=> (qualifying /\ u \in users_received_initiative)
    /\ ~qualifying
       => UNCHANGED <<user_records, consecutive_message_count,
                      last_initiative_types, users_received_initiative>>
    /\ (qualifying /\ u \notin users_received_initiative)
       => UNCHANGED <<consecutive_message_count, last_initiative_types>>

HourOutsideWindow(current_hour) ==
    /\ time_limit_enabled
    /\ (current_hour < activity_start_hour \/ current_hour >= activity_end_hour)

\* C11: With the active-hours limit enabled and the current hour outside
\* [activity_start_hour, activity_end_hour), a tick of the poller schedules no
\* task and changes neither user_records nor the counters nor the task
\* registry, whatever the inactivity of the tracked users.
C11_InactiveHoursTickIsNoOp ==
    [][\A current_hour \in HourSamples :
         \A delays \in [RecordKeys(user_records) -> RandomDelays(0, NudgeMaxDelay)] :
            (HourOutsideWindow(current_hour) /\ PollerTick(current_hour, delays))
            => UNCHANGED <<user_records, consecutive_message_count,
                           last_initiative_types, users_received_initiative,
                           message_tasks>>]_vars

\* C11 witness: the tick of this moment has run (the poller sleeps again) and
\* has left u1 in place although u1 is due
C11_Witness ==
    /\ poller.status = "running"
    /\ poller.wake = now + PollSleepSeconds
    /\ DueForNudge("u1")

\* the condition C12 gives for a nudge: whitelist passed, count below the cap,
\* a record with a time stamp that is inactive_time_seconds old
NudgeConditionAsClaimed(user_id) ==
    /\ user_id \in RecordKeys(user_records)
    /\ (~whitelist_enabled \/ user_id \in whitelist_users)
    /\ CountOf(consecutive_message_count, user_id) < max_consecutive_messages
    /\ RecordOf(user_records, user_id).shape # "no_timestamp"
    /\ now - RecordOf(user_records, user_id).timestamp >= inactive_time_seconds

\* a tick within the active hours, however it ends
TickInActiveHours ==
    \E current_hour \in HourSamples :
        /\ ~HourOutsideWindow(current_hour)
        /\ \E delays \in [RecordKeys(user_records) -> RandomDelays(0, NudgeMaxDelay)] :
              PollerTick(current_hour, delays)

\* C12: Within an active tick the poller schedules a nudge for a tracked user
\* if and only if the whitelist lets the user pass, the user's count is below
\* the cap and the record has a time stamp that is at least
\* inactive_time_seconds old; the record of every other tracked user is left
\* as it is.
C12_SchedulesIffDue ==
    [][TickInActiveHours
       => \A u \in RecordKeys(user_records) :
             /\ NewTasksOf(u) # {} <=> NudgeConditionAsClaimed(u)
             /\ ~NudgeConditionAsClaimed(u)
                => /\ u \in RecordKeys(user_records')
                   /\ RecordOf(user_records', u) = RecordOf(user_records, u)]_vars

\* C13: A send action that ends after generate_and_send_message re-inserts the
\* record of the user if and only if the delivery succeeded and the new count
\* is below the cap; after a failed delivery, and when the cap was reached, it
\* inserts no record.
C13_RearmOnlyAfterDelivery ==
    [][\A id \in DOMAIN message_tasks : \A outcome \in Outcomes :
         SendComplete(id, outcome)
         => LET task == message_tasks[id] IN
            IF outcome = "sent" /\ task.next_count < max_consecutive_messages
            THEN /\ task.user_id \in RecordKeys(user_records')
                 /\ RecordOf(user_records', task.user_id).timestamp = now
            ELSE user_records' = user_records]_vars


(* ------------------------------------------------------------------ *)
(* The task registry at large: the tasks of all three schedulers, their *)
(* steps on the event loop, cancel_task, cancel_all_tasks, terminate    *)
(* ------------------------------------------------------------------ *)

\* number of steps of the clock of EngineSpec
MaxTicks == 6

\* bound: how many calls of cancel_task and cancel_all_tasks are followed
MaxCalls == 2

\* asyncio.sleep(10) of _daily_check_loop; the step of the clock of EngineSpec
SharingSleepSeconds == 10

\* asyncio.sleep(30) of _greeting_check_loop
GreetingSleepSeconds == 30

\* datetime.now().hour and datetime.now().minute of the clock, which counts
\* the seconds of a day
HourOf(t) == (t \div 3600) % 24
MinuteOf(t) == (t \div 60) % 60

\* datetime.now().date(), as the number of the day
DateOf(t) == t \div 86400

\* the hours the engine is started at, on the hour: 8 is within the active
\* hours and is the hour of the morning greeting, 23 is outside the active
\* hours and is the hour of the night greeting
EngineStartHours == {8, 23}

\* min_delay=1, max_delay=40 of the greeting tasks; the delays drawn are the
\* two ends of the range
GreetingMinDelay == 1
GreetingMaxDelay == 40
GreetingDelaySamples == {GreetingMinDelay, GreetingMaxDelay}

\* daily_sharing.min_interval_minutes
min_interval_minutes == 1

\* user_selection_ratio = 0.4 as a fraction, and min_selected_users
SelectionRatioNum == 4
SelectionRatioDen == 10
min_selected_users == 1

\* a task of the event loop: the one the registry holds under task_id, or one
\* the registry holds no more
TaskRefs ==
    {<<"registry", id>> : id \in DOMAIN message_tasks}
    \cup {<<"detached", d>> : d \in detached_tasks}

\* the task object of a reference, and the task_id it was scheduled with
TaskAt(ref) == IF ref[1] = "registry" THEN message_tasks[ref[2]] ELSE ref[2].task
TaskIdOf(ref) == IF ref[1] = "registry" THEN ref[2] ELSE ref[2].task_id

\* the coroutine_func of a task: the first part of its task_id names the
\* scheduler that composed the id
KindOf(task_id) ==
    IF task_id[1] \in {"morning", "night"} THEN "greeting" ELSE task_id[1]

\* the task object changes, the registry stays as it is
UpdateTask(ref, task) ==
    IF ref[1] = "registry"
    THEN /\ message_tasks' = [message_tasks EXCEPT ![ref[2]] = task]
         /\ UNCHANGED detached_tasks
    ELSE /\ detached_tasks' =
               (detached_tasks \ {ref[2]}) \cup {[task_id |-> ref[2].task_id, task |-> task]}
         /\ UNCHANGED message_tasks

\* the task is done: it ended by return, by an exception that delayed_task
\* caught, or by cancellation; its done callback is still to run
Finished(task, how) == [task EXCEPT !.pc = "finished", !.ended = how]

\* schedule_task for any scheduler: self.parent._message_tasks[task_id] = task.
\* A task the registry held under the same task_id stays on the event loop.
RegisterTask(tasks, task_id, user_id, actual_delay) ==
    ScheduleTask(tasks, task_id, user_id, actual_delay)
Displaced(tasks, task_id) ==
    IF task_id \in DOMAIN tasks
    THEN {[task_id |-> task_id, task |-> tasks[task_id]]}
    ELSE {}

\* the variables no step of a task, and no call of the registry, touches
loop_vars == <<greeting_task, last_check_date, morning_triggered, night_triggered,
               today_morning_users, today_night_users, daily_task,
               last_sharing_time, poller, terminated>>

\* what the callers of cancel_task and cancel_all_tasks have seen and done
call_vars == <<cancel_returned, cancel_calls>>

\* the variables of the calls of single functions and of the stored file
aux_vars == <<fn_call, fn_result, last_initiative_messages, data_file,
              storage_pc, storage_log, night_time, nudge_log>>

\* what the loops, the tasks and the registry leave alone
idle_vars == <<just_reset, aux_vars, last_share_sent>>

\* the state the send action of a nudge writes
core_vars == <<user_records, consecutive_message_count, last_initiative_types,
               users_received_initiative>>

\* First step of delayed_task: it runs to "await asyncio.sleep(actual_delay *
\* 60)", which suspends for every delay, 0 included.
DelayedTaskStart(ref) ==
    /\ ref \in TaskRefs
    /\ ~TaskAt(ref).started
    /\ ~TaskAt(ref).must_cancel
    /\ TaskAt(ref).pc = "sleeping"
    /\ UpdateTask(ref, [TaskAt(ref) EXCEPT !.started = TRUE,
                                            !.wake = now + TaskAt(ref).delay * 60])
    /\ UNCHANGED <<now, core_vars, loop_vars, idle_vars, call_vars>>

\* what generate_and_send_message can do up to its next suspension: the
\* Outcomes of above, "sent" being a completion of one segment, or the first of
\* two segments sent and the typing delay begun
EngineOutcomes == Outcomes \cup {"first_segment"}

\* tools_api_keySettings.weather_get, switched on
weather_get == TRUE

\* the greeting asks for the weather in the time periods of the morning and
\* of the afternoon: 5 <= current_hour < 18
WeatherAsked(current_hour) ==
    weather_get /\ 5 <= current_hour /\ current_hour < 18

\* what get_weather_info does when it is called: it raises (no api key, or
\* the request fails), or it returns
WeatherOutcomes == {"raises", "returns"}

\* an exception that ends every registered task, as if the tasks were awaited
\* together
RaiseInActionEndsAll(ref, task) ==
    /\ message_tasks' =
          [id \in DOMAIN message_tasks |-> Finished(message_tasks[id], "raised")]
    /\ detached_tasks' =
          IF ref[1] = "registry" THEN detached_tasks
          ELSE (detached_tasks \ {ref[2]})
               \cup {[task_id |-> ref[2].task_id, task |-> Finished(task, "raised")]}

\* coroutine_func raises: "except Exception" of delayed_task logs the error
\* and the task is done
RaiseInAction(ref, task) == UpdateTask(ref, Finished(task, "raised"))

\* The end of coroutine_func.  For a nudge it is the rest of
\* _send_initiative_message after generate_and_send_message has returned (the
\* updates of SendComplete); the action of a share or of a greeting ends with
\* generate_and_send_message and writes nothing.
CompleteAction(kind, user_id, next_count, outcome) ==
    IF kind = "initiative"
    THEN LET result == GenerateResult(outcome)
             marked == IF outcome = "sent"
                       THEN users_received_initiative \cup {user_id}
                       ELSE users_received_initiative
         IN  IF FailureDetected(result)
             THEN /\ users_received_initiative' = marked
                  /\ UNCHANGED <<consecutive_message_count, last_initiative_types,
                                 user_records>>
             ELSE /\ consecutive_message_count' =
                         DictSet(consecutive_message_count, user_id, next_count)
                  /\ last_initiative_types' =
                         DictSet(last_initiative_types, user_id, [count |-> next_count])
                  /\ users_received_initiative' = MarkReceived(marked, user_id)
                  /\ user_records' = RearmMonitoring(user_records, user_id, next_count)
    ELSE UNCHANGED core_vars

\* The sleep of delayed_task has run out and coroutine_func is entered; it runs
\* to its first suspension or to its end.  An exception that leaves
\* coroutine_func is caught by "except Exception" of delayed_task.
DelayedTaskRun(ref, weather) ==
    /\ ref \in TaskRefs
    /\ TaskAt(ref).started
    /\ TaskAt(ref).pc = "sleeping"
    /\ ~TaskAt(ref).must_cancel
    /\ now >= TaskAt(ref).wake
    /\ LET task == TaskAt(ref)
           kind == KindOf(TaskIdOf(ref))
           next_count == NextCount(ReadCurrentCount(task.user_id))
       IN  IF WhitelistSkips(task.user_id)
           THEN UpdateTask(ref, Finished(task, "returned"))
           ELSE IF kind = "initiative"
           THEN IF Denied(next_count)
                THEN UpdateTask(ref, Finished(task, "returned"))
                ELSE UpdateTask(ref, [task EXCEPT !.pc = "generating",
                                                  !.next_count = next_count])
           ELSE IF kind = "greeting" /\ WeatherAsked(HourOf(now)) /\ weather = "raises"
           THEN RaiseInAction(ref, task)
           ELSE UpdateTask(ref, [task EXCEPT !.pc = "generating"])
    /\ UNCHANGED <<now, core_vars, loop_vars, idle_vars, call_vars>>

\* generate_and_send_message goes on from its awaits of the conversation and of
\* the completion: it fails, or it sends the only segment and returns, or it
\* sends the first of two segments and suspends in _simulate_typing_delay.
GenerateStep(ref, outcome) ==
    /\ ref \in TaskRefs
    /\ TaskAt(ref).pc = "generating"
    /\ ~TaskAt(ref).must_cancel
    /\ LET task == TaskAt(ref)
           kind == KindOf(TaskIdOf(ref))
       IN  IF outcome = "first_segment"
           THEN /\ UpdateTask(ref, [task EXCEPT !.pc = "typing", !.segments = 1])
                /\ UNCHANGED core_vars
           ELSE /\ UpdateTask(ref,
                      Finished([task EXCEPT !.segments = IF outcome = "sent" THEN 1 ELSE 0],
                               "returned"))
                /\ CompleteAction(kind, task.user_id, task.next_count, outcome)
    /\ UNCHANGED <<now, loop_vars, just_reset, aux_vars, call_vars>>

\* History of the deliveries of daily shares: the step of
\* generate_and_send_message that sends the first segment of a share is
\* noted with its time.
ShareRecorded(ref, outcome) ==
    last_share_sent' =
       IF KindOf(TaskIdOf(ref)) = "sharing" /\ outcome \in {"sent", "first_segment"}
       THEN DictSet(last_share_sent, TaskAt(ref).user_id, now)
       ELSE last_share_sent

\* The typing delay has run out: the last segment is sent, the history is
\* stored, generate_and_send_message returns True and coroutine_func ends.
TypingStep(ref) ==
    /\ ref \in TaskRefs
    /\ TaskAt(ref).pc = "typing"
    /\ ~TaskAt(ref).must_cancel
    /\ LET task == TaskAt(ref)
           kind == KindOf(TaskIdOf(ref))
       IN  /\ UpdateTask(ref, Finished([task EXCEPT !.segments = 2], "returned"))
           /\ CompleteAction(kind, task.user_id, task.next_count, "sent")
    /\ UNCHANGED <<now, loop_vars, idle_vars, call_vars>>

\* a cancel that reaches only a task that has taken its first step
RequestCancelStartedOnly(task) ==
    IF task.started
    THEN [task EXCEPT !.must_cancel = TRUE,
                      !.cancelled_early = task.pc = "sleeping"]
    ELSE [task EXCEPT !.cancelled_early = task.pc = "sleeping"]

\* task.cancel() on a task that is not done: CancelledError will be thrown into
\* the coroutine at its next step, whether it waits in an await or has not
\* taken its first step
RequestCancel(task) ==
    [task EXCEPT !.must_cancel = TRUE,
                 !.cancelled_early = task.pc = "sleeping"]

\* CancelledError is thrown into the coroutine where it is suspended: neither
\* "except Exception" of the action catches it, delayed_task logs and re-raises
\* it, and the task is done
DelayedTaskUnwind(ref) ==
    /\ ref \in TaskRefs
    /\ TaskAt(ref).must_cancel
    /\ TaskAt(ref).pc # "finished"
    /\ UpdateTask(ref, [Finished(TaskAt(ref), "cancelled") EXCEPT !.must_cancel = FALSE])
    /\ UNCHANGED <<now, core_vars, loop_vars, idle_vars, call_vars>>

\* a done callback that clears the registry instead of popping its own entry
RemoveTaskClearing(ref) ==
    /\ message_tasks' = <<>>
    /\ detached_tasks' =
          (detached_tasks \ (IF ref[1] = "registry" THEN {} ELSE {ref[2]}))
          \cup {[task_id |-> id, task |-> message_tasks[id]] :
                   id \in DOMAIN message_tasks \ {TaskIdOf(ref)}}

\* remove_task, the done callback: if tid in _message_tasks, pop it.  The entry
\* is looked up by task_id alone, so the callback of a task the registry holds
\* no more pops whatever task was registered under the same id since; that
\* task stays on the event loop.
RemoveTask(ref) ==
    IF ref[1] = "registry"
    THEN /\ message_tasks' = DictPop(message_tasks, ref[2])
         /\ UNCHANGED detached_tasks
    ELSE /\ message_tasks' = DictPop(message_tasks, ref[2].task_id)
         /\ detached_tasks' =
               (detached_tasks \ {ref[2]}) \cup Displaced(message_tasks, ref[2].task_id)

\* the event loop runs the done callback of a finished task
RemoveTaskCallback(ref) ==
    /\ ref \in TaskRefs
    /\ TaskAt(ref).pc = "finished"
    /\ RemoveTask(ref)
    /\ UNCHANGED <<now, core_vars, loop_vars, idle_vars, call_vars>>

\* an id no scheduler has composed
UnknownTaskId == <<"unknown", "u1", 0>>

\* the ids cancel_task is called with
CancelIds == DOMAIN message_tasks \cup {UnknownTaskId}

\* a test that leaves out task.done()
CancellableIgnoringDone(task_id) == task_id \in DOMAIN message_tasks

\* if task_id in self.parent._message_tasks: ... if not task.done():
Cancellable(task_id) ==
    task_id \in DOMAIN message_tasks /\ message_tasks[task_id].pc # "finished"

\* cancel_task(task_id): a task that is registered and not done is cancelled
\* and True is returned; else False
CancelTask(task_id) ==
    /\ cancel_calls < MaxCalls
    /\ cancel_calls' = cancel_calls + 1
    /\ IF Cancellable(task_id)
       THEN /\ message_tasks' =
                  [message_tasks EXCEPT ![task_id] = RequestCancel(message_tasks[task_id])]
            /\ cancel_returned' = "True"
       ELSE /\ cancel_returned' = "False"
            /\ UNCHANGED message_tasks
    /\ UNCHANGED <<now, core_vars, loop_vars, idle_vars, detached_tasks>>

\* cancel_all_tasks: every registered task that is not done is cancelled, then
\* the registry is cleared; the tasks stay on the event loop until they unwind
CancelAllTasks ==
    /\ cancel_calls < MaxCalls
    /\ cancel_calls' = cancel_calls + 1
    /\ detached_tasks' = detached_tasks \cup
          {[task_id |-> id,
            task |-> IF message_tasks[id].pc # "finished"
                     THEN RequestCancel(message_tasks[id])
                     ELSE message_tasks[id]] : id \in DOMAIN message_tasks}
    /\ message_tasks' = <<>>
    /\ UNCHANGED <<now, core_vars, loop_vars, idle_vars, cancel_returned>>

(* ------------------------------------------------------------------ *)
(* The greeting check and the daily-share check                        *)
(* ------------------------------------------------------------------ *)

\* task_id = f"{greeting_type}_{user_id}_{int(datetime.datetime.now().timestamp())}"
GreetingTaskId(greeting_type, user_id, t) == <<greeting_type, user_id, t>>

\* an id of a share without the second it was composed in
SharingTaskIdUnstamped(user_id, t) == <<"sharing", user_id, 0>>

\* task_id = f"sharing_{user_id}_{int(now.timestamp())}"
SharingTaskId(user_id, t) == <<"sharing", user_id, t>>

\* the test of _greeting_check_loop for the morning greeting
MorningTime(current_hour, current_minute) ==
    \/ current_hour = morning_hour /\ current_minute >= morning_minute
    \/ current_hour > morning_hour /\ current_hour < morning_hour + 2

\* the test of _greeting_check_loop for the night greeting
NightTime(current_hour, current_minute) ==
    \/ current_hour = night_time.hour /\ current_minute >= night_time.minute
    \/ current_hour > night_time.hour
    \/ night_time.hour = 23 /\ current_hour = 0 /\ current_minute < night_time.minute

\* the elements of a list
SeqRange(seq) == {seq[i] : i \in 1..Len(seq)}

\* list(d.keys()) of a dict whose keys are the set keys
RECURSIVE SetToSeq(_)
SetToSeq(keys) ==
    IF keys = {} THEN <<>>
    ELSE LET k == CHOOSE x \in keys : TRUE
         IN  <<k>> \o SetToSeq(keys \ {k})

\* the keys of user_records in the order of the dict
RecordIds(recs) == [i \in 1..Len(recs) |-> recs[i].user_id]

\* a test of the whitelist that does not read whitelist_enabled
WhitelistRejectsUnlisted(user_id, enabled, users) == user_id \notin users

\* if self.dialogue_core.whitelist_enabled and
\*    user_id not in self.dialogue_core.whitelist_users: continue
WhitelistRejects(user_id, enabled, users) == enabled /\ user_id \notin users

\* The first loop of get_eligible_users, over user_records.items(): the ids
\* that are appended, in order (each id goes with its record).
RECURSIVE FromRecords(_, _, _, _)
FromRecords(record_ids, excluded_users, enabled, users) ==
    IF record_ids = <<>> THEN <<>>
    ELSE LET user_id == Head(record_ids)
             rest == FromRecords(Tail(record_ids), excluded_users, enabled, users)
         IN  IF user_id \in excluded_users THEN rest
             ELSE IF WhitelistRejects(user_id, enabled, users) THEN rest
             ELSE <<user_id>> \o rest

\* The second loop, over last_initiative_messages.items(): an id that is in
\* the result already is skipped, then the same two tests.
RECURSIVE FromHistory(_, _, _, _, _)
FromHistory(eligible_users, history_ids, excluded_users, enabled, users) ==
    IF history_ids = <<>> THEN eligible_users
    ELSE LET user_id == Head(history_ids)
             listed == \E i \in 1..Len(eligible_users) : eligible_users[i] = user_id
             skip == \/ listed
                     \/ user_id \in excluded_users
                     \/ WhitelistRejects(user_id, enabled, users)
         IN  FromHistory(IF skip THEN eligible_users
                                 ELSE Append(eligible_users, user_id),
                         Tail(history_ids), excluded_users, enabled, users)

\* get_eligible_users(excluded_users), as a function of what it reads: the
\* keys of user_records and of last_initiative_messages and the whitelist.
get_eligible_users(record_ids, history_ids, excluded_users, enabled, users) ==
    FromHistory(FromRecords(record_ids, excluded_users, enabled, users),
                history_ids, excluded_users, enabled, users)

\* get_eligible_users: the users of user_records and of
\* last_initiative_messages that are not excluded and pass the whitelist.
\* last_initiative_messages gets its keys where last_initiative_types gets
\* them (lines 376 and 382 of the send action), so the keys are the same.
EligibleUsers(excluded_users) ==
    SeqRange(get_eligible_users(RecordIds(user_records),
                                SetToSeq(DOMAIN last_initiative_types),
                                excluded_users, whitelist_enabled,
                                whitelist_users))

\* int(user_count * selection_ratio) for the ratio num / den: the product
\* without its fraction
IntOfProduct(user_count, num, den) == (user_count * num) \div den

\* a selection count that forgets min_count
selection_count_of_ratio(user_count, num, den, min_count) ==
    IntOfProduct(user_count, num, den)

\* selection_count = max(min_count, int(user_count * selection_ratio))
selection_count(user_count, num, den, min_count) ==
    LET part == IntOfProduct(user_count, num, den)
    IN  IF min_count > part THEN min_count ELSE part

\* min(selection_count, user_count), the second argument of random.sample
SampleSize(user_count, num, den, min_count) ==
    LET count == selection_count(user_count, num, den, min_count)
    IN  IF count < user_count THEN count ELSE user_count

\* random.sample(population, k): the lists of k entries taken from k
\* different places of the population, in every order
Samples(population, k) ==
    LET places == {pos \in [1..k -> 1..Len(population)] :
                      \A i, j \in 1..k : i # j => pos[i] # pos[j]}
    IN  {[i \in 1..k |-> population[pos[i]]] : pos \in places}

\* select_random_users(eligible_users, selection_ratio, min_count): the lists
\* it can return
select_random_users(eligible_users, num, den, min_count) ==
    IF eligible_users = <<>> THEN {<<>>}
    ELSE Samples(eligible_users,
                 SampleSize(Len(eligible_users), num, den, min_count))

\* selection_count = max(min_count, int(user_count * selection_ratio))
SelectionCount(user_count) ==
    selection_count(user_count, SelectionRatioNum, SelectionRatioDen,
                    min_selected_users)

\* random.sample(eligible_users, min(selection_count, user_count)): what it
\* can return, as sets
Selections(eligible) ==
    LET n == Cardinality(eligible)
        k == IF SelectionCount(n) < n THEN SelectionCount(n) ELSE n
    IN  IF eligible = {} THEN {{}}
        ELSE {sel \in SUBSET eligible : Cardinality(sel) = k}

\* The for loop of _check_greeting_time over the selected users: reg is
\* [message_tasks, detached_tasks] as the earlier iterations left them.
RECURSIVE GreetAll(_, _, _, _)
GreetAll(reg, greeting_type, selected, actual_delay) ==
    IF selected = {} THEN reg
    ELSE LET user_id == CHOOSE u \in selected : TRUE
             task_id == GreetingTaskId(greeting_type, user_id, now)
         IN  GreetAll(
                [message_tasks |-> RegisterTask(reg.message_tasks, task_id, user_id,
                                                actual_delay),
                 detached_tasks |-> reg.detached_tasks
                                    \cup Displaced(reg.message_tasks, task_id)],
                greeting_type, selected \ {user_id}, actual_delay)

\* a for loop that does not note the users it has scheduled
GreetedUsersForgotten(users_set, selected) == users_set

\* users_set.add(user_id) for every selected user, after schedule_task
GreetedUsers(users_set, selected) == users_set \cup selected

\* One turn of _greeting_check_loop, from the top of the loop body to
\* asyncio.sleep(30).  When the date has changed the sets and the flags of the
\* day are cleared first.  sel_morning and sel_night are what random.sample
\* returns.
GreetingCheck(current_date, current_hour, current_minute, sel_morning, sel_night, actual_delay) ==
    /\ greeting_task.status = "running"
    /\ now >= greeting_task.wake
    /\ LET new_day == current_date # last_check_date
           morning_done == IF new_day THEN FALSE ELSE morning_triggered
           night_done == IF new_day THEN FALSE ELSE night_triggered
           morning_users == IF new_day THEN {} ELSE today_morning_users
           night_users == IF new_day THEN {} ELSE today_night_users
           morning == ~morning_done /\ MorningTime(current_hour, current_minute)
           night == ~night_done /\ NightTime(current_hour, current_minute)
           reg0 == [message_tasks |-> message_tasks, detached_tasks |-> detached_tasks]
           reg1 == IF morning
                   THEN GreetAll(reg0, "morning", sel_morning, actual_delay) ELSE reg0
           reg2 == IF night
                   THEN GreetAll(reg1, "night", sel_night, actual_delay) ELSE reg1
       IN  /\ sel_morning \in Selections(EligibleUsers(morning_users))
           /\ sel_night \in Selections(EligibleUsers(night_users))
           /\ message_tasks' = reg2.message_tasks
           /\ detached_tasks' = reg2.detached_tasks
           /\ last_check_date' = current_date
           /\ morning_triggered' = (morning_done \/ morning)
           /\ night_triggered' = (night_done \/ night)
           /\ today_morning_users' =
                 IF morning THEN GreetedUsers(morning_users, sel_morning)
                 ELSE morning_users
           /\ today_night_users' =
                 IF night THEN GreetedUsers(night_users, sel_night) ELSE night_users
    /\ greeting_task' = [greeting_task EXCEPT !.wake = now + GreetingSleepSeconds]
    /\ UNCHANGED <<now, core_vars, idle_vars, call_vars, daily_task,
                   last_sharing_time, poller, terminated>>

\* a user of user_records the daily share goes to: whitelisted, and no share
\* within the last min_interval_minutes
ShareDue(user_id, sharing_times) ==
    /\ ~WhitelistSkips(user_id)
    /\ user_id \in DOMAIN sharing_times
       => now - sharing_times[user_id] >= min_interval_minutes * 60

\* The second for loop of _check_daily_sharing, from item i of the eligible
\* users on.  record["conversation_id"] of a record without that key raises
\* after last_sharing_time was written; the exception ends the check.
RECURSIVE ShareAll(_, _, _)
ShareAll(eligible, i, st) ==
    IF i > Len(eligible) THEN st
    ELSE LET user_id == eligible[i].user_id
             task_id == SharingTaskId(user_id, now)
             times == DictSet(st.last_sharing_time, user_id, now)
         IN  IF ~ShareDue(user_id, st.last_sharing_time)
             THEN ShareAll(eligible, i + 1, st)
             ELSE IF eligible[i].shape = "no_conversation_id"
             THEN [st EXCEPT !.last_sharing_time = times]
             ELSE ShareAll(eligible, i + 1,
                    [message_tasks |-> RegisterTask(st.message_tasks, task_id, user_id, 0),
                     detached_tasks |-> st.detached_tasks
                                        \cup Displaced(st.message_tasks, task_id),
                     last_sharing_time |-> times])

\* One turn of _daily_check_loop, from the top of the loop body to
\* asyncio.sleep(10): _check_daily_sharing within the active hours.
SharingCheck(current_hour) ==
    /\ daily_task.status = "running"
    /\ now >= daily_task.wake
    /\ LET eligible == SelectSeq(user_records,
                          LAMBDA r : ShareDue(r.user_id, last_sharing_time))
           st == ShareAll(eligible, 1,
                          [message_tasks |-> message_tasks,
                           detached_tasks |-> detached_tasks,
                           last_sharing_time |-> last_sharing_time])
       IN  IF OutsideActiveHours(current_hour)
           THEN UNCHANGED <<message_tasks, detached_tasks, last_sharing_time>>
           ELSE /\ message_tasks' = st.message_tasks
                /\ detached_tasks' = st.detached_tasks
                /\ last_sharing_time' = st.last_sharing_time
    /\ daily_task' = [daily_task EXCEPT !.wake = now + SharingSleepSeconds]
    /\ UNCHANGED <<now, core_vars, idle_vars, call_vars, greeting_task,
                   last_check_date, morning_triggered, night_triggered,
                   today_morning_users, today_night_users, poller, terminated>>

(* ------------------------------------------------------------------ *)
(* Shutdown, the clock and the specification of the whole engine       *)
(* ------------------------------------------------------------------ *)

\* a loop task after stop(): cancelled if it was running
Stopped(loop_task) ==
    IF loop_task.status = "running"
    THEN [loop_task EXCEPT !.status = "cancelled"]
    ELSE loop_task

\* InitiativeDialogue.terminate: the poller, the greeting loop and the daily
\* loop are cancelled (the periodic save and the schedule generator too, which
\* hold no state of this model).  Nothing in it calls cancel_all_tasks or
\* cancel_task: the registry and its tasks are left as they are.
Terminate ==
    /\ ~terminated
    /\ terminated' = TRUE
    /\ poller' = PollerStopped(poller)
    /\ greeting_task' = Stopped(greeting_task)
    /\ daily_task' = Stopped(daily_task)
    /\ UNCHANGED <<now, core_vars, idle_vars, message_tasks, detached_tasks,
                   call_vars, last_check_date, morning_triggered,
                   night_triggered, today_morning_users, today_night_users,
                   last_sharing_time>>

\* the event loop has a step to run now: a loop whose sleep has run out, a
\* task that has not taken its first step, a task whose sleep has run out, a
\* task a CancelledError is to be thrown into, a done callback
EngineTimerDue ==
    \/ poller.status = "running" /\ now >= poller.wake
    \/ greeting_task.status = "running" /\ now >= greeting_task.wake
    \/ daily_task.status = "running" /\ now >= daily_task.wake
    \/ \E ref \in TaskRefs :
          \/ TaskAt(ref).pc = "sleeping"
             /\ (~TaskAt(ref).started \/ now >= TaskAt(ref).wake)
          \/ TaskAt(ref).must_cancel
          \/ TaskAt(ref).pc = "finished"

\* The wall clock advances by the shortest sleep of the loops, for MaxTicks
\* steps from the hour the engine was started at.  The waits of
\* generate_and_send_message (the completion, the typing delay) take any time.
EngineAdvance ==
    /\ now % 3600 < MaxTicks * SharingSleepSeconds
    /\ ~EngineTimerDue
    /\ now' = now + SharingSleepSeconds
    /\ UNCHANGED <<core_vars, loop_vars, idle_vars, message_tasks, detached_tasks,
                   call_vars>>

\* what every start has in common: the clock on the hour, the poller in its
\* first sleep, an empty registry, the flags and sets of a new day
EngineStart(start_hour) ==
    /\ now = start_hour * 3600
    /\ users_received_initiative = {}
    /\ message_tasks = <<>>
    /\ poller = [status |-> "running", wake |-> now + PollSleepSeconds, held |-> TRUE]
    /\ just_reset = {}
    /\ NoCall
    /\ StorageIdle
    /\ last_share_sent = <<>>
    /\ GreetingsNew
    /\ NoNudgeLog
    /\ detached_tasks = {}
    /\ cancel_returned = None
    /\ cancel_calls = 0
    /\ terminated = FALSE
    /\ morning_triggered = FALSE
    /\ night_triggered = FALSE
    /\ today_morning_users = {}
    /\ today_night_users = {}
    /\ last_sharing_time = <<>>

\* a first run: one monitored user who has just written, no nudge sent yet
MonitoredUser ==
    /\ user_records = <<[user_id |-> "u1", timestamp |-> now, shape |-> "ok"]>>
    /\ consecutive_message_count = <<>>
    /\ last_initiative_types = <<>>

\* a later run: the user has had max_consecutive_messages nudges and is
\* monitored no more, the maps of the stored file hold the count
ExhaustedUser ==
    /\ user_records = <<>>
    /\ consecutive_message_count = [u \in {"u1"} |-> max_consecutive_messages]
    /\ last_initiative_types =
          [u \in {"u1"} |-> [count |-> max_consecutive_messages]]

\* The state after initialize() with the greetings and the daily shares
\* enabled: the poller in its first sleep, the greeting loop and the daily
\* loop about to take their first turn.
EngineInit ==
    /\ \E start_hour \in EngineStartHours : EngineStart(start_hour)
    /\ MonitoredUser
    /\ greeting_task = [status |-> "running", wake |-> now]
    /\ daily_task = [status |-> "running", wake |-> now]

\* a turn of the poller within the engine
EnginePollerTick ==
    \E delays \in [RecordKeys(user_records) -> RandomDelays(0, NudgeMaxDelay)] :
       PollerTick(HourOf(now), delays) /\ UNCHANGED engine_vars

\* a turn of the greeting loop within the engine
EngineGreetingCheck ==
    \E sel_morning, sel_night \in SUBSET Users :
       \E actual_delay \in GreetingDelaySamples :
          GreetingCheck(DateOf(now), HourOf(now), MinuteOf(now), sel_morning, sel_night,
                        actual_delay)

\* The plugin as it runs: the three loops, the tasks they schedule, shutdown.
\* Nothing in the plugin calls cancel_task or cancel_all_tasks, so no task is
\* ever cancelled and DelayedTaskUnwind has no step here.
EngineNext ==
    \/ EngineAdvance
    \/ EnginePollerTick
    \/ EngineGreetingCheck
    \/ SharingCheck(HourOf(now))
    \/ \E ref \in TaskRefs : DelayedTaskStart(ref)
    \/ \E ref \in TaskRefs : \E weather \in WeatherOutcomes : DelayedTaskRun(ref, weather)
    \/ \E ref \in TaskRefs : \E outcome \in EngineOutcomes :
          GenerateStep(ref, outcome) /\ ShareRecorded(ref, outcome)
    \/ \E ref \in TaskRefs : TypingStep(ref)
    \/ \E ref \in TaskRefs : RemoveTaskCallback(ref)
    \/ Terminate

EngineSpec == EngineInit /\ [][EngineNext]_vars

\* The task registry with a caller of cancel_task and cancel_all_tasks.  The
\* schedulers are those of the plugin: in the default configuration (daily
\* shares on, greetings off) with a monitored user, or with the greetings on
\* and a user who is greeted only.
RegistryInit ==
    /\ EngineStart(morning_hour)
    /\ daily_task = [status |-> "running", wake |-> now]
    /\ \/ MonitoredUser /\ greeting_task = [status |-> "disabled", wake |-> 0]
       \/ ExhaustedUser /\ greeting_task = [status |-> "running", wake |-> now]

RegistryNext ==
    \/ EngineAdvance
    \/ EnginePollerTick
    \/ EngineGreetingCheck
    \/ SharingCheck(HourOf(now))
    \/ \E ref \in TaskRefs : DelayedTaskStart(ref)
    \/ \E ref \in TaskRefs : \E weather \in WeatherOutcomes : DelayedTaskRun(ref, weather)
    \/ \E ref \in TaskRefs : \E outcome \in EngineOutcomes :
          GenerateStep(ref, outcome) /\ UNCHANGED last_share_sent
    \/ \E ref \in TaskRefs : TypingStep(ref)
    \/ \E ref \in TaskRefs : DelayedTaskUnwind(ref)
    \/ \E ref \in TaskRefs : RemoveTaskCallback(ref)
    \/ \E task_id \in CancelIds : CancelTask(task_id)
    \/ CancelAllTasks

RegistrySpec == RegistryInit /\ [][RegistryNext]_vars

\* The event loop runs every step that is ready: a done callback that was
\* scheduled with call_soon is run, a coroutine that was cancelled is resumed
\* with the CancelledError.
FairRegistrySpec ==
    /\ RegistrySpec
    /\ WF_vars(\E ref \in TaskRefs : RemoveTaskCallback(ref))
    /\ WF_vars(\E ref \in TaskRefs : DelayedTaskUnwind(ref))

(* ------------------------------------------------------------------ *)
(* Claims about the task registry, isolation and shutdown              *)
(* ------------------------------------------------------------------ *)

\* C14: a task that was cancelled while its delay had not run out (a cancel
\* before its first step included, and whatever the delay) never enters
\* coroutine_func: it waits to be unwound, or it is done by cancellation with
\* no segment sent and no count read.
C14_CancelledBeforeDelayNeverRuns ==
    \A ref \in TaskRefs :
       TaskAt(ref).cancelled_early =>
          \/ TaskAt(ref).pc = "sleeping"
          \/ /\ TaskAt(ref).pc = "finished"
             /\ TaskAt(ref).ended = "cancelled"
             /\ TaskAt(ref).segments = 0
             /\ TaskAt(ref).next_count = 0

\* a task with delay 0 that cancel_task reached before its first step is done
\* by cancellation
C14_Witness ==
    \E id \in DOMAIN message_tasks :
       /\ message_tasks[id].cancelled_early
       /\ ~message_tasks[id].started
       /\ message_tasks[id].delay = 0
       /\ message_tasks[id].pc = "finished"
       /\ message_tasks[id].ended = "cancelled"

\* a registered task is done and its done callback has not run yet
FinishedRegistered ==
    \E id \in DOMAIN message_tasks : message_tasks[id].pc = "finished"

\* the step is a call of cancel_all_tasks
ClearsRegistry ==
    /\ cancel_calls' = cancel_calls + 1
    /\ message_tasks' = <<>>
    /\ cancel_returned' = cancel_returned

\* an entry leaves the registry only when its own task is done, or when
\* cancel_all_tasks clears the registry
RemovesOnlyFinished ==
    \A id \in DOMAIN message_tasks :
       id \notin DOMAIN message_tasks' =>
          message_tasks[id].pc = "finished" \/ ClearsRegistry

\* C15: the entry of a task leaves the registry once the task is done, however
\* it ended: no step removes the entry of a task that is not done (but
\* cancel_all_tasks, which clears the registry), and with the event loop
\* running the done callbacks the registry is again and again free of done
\* tasks.
C15_DoneTasksLeaveRegistry ==
    /\ [][RemovesOnlyFinished]_vars
    /\ []<>(~FinishedRegistered)

\* a nudge was delivered and a task was cancelled through cancel_task, and the
\* registry holds neither any more
C15_Witness ==
    /\ "u1" \in users_received_initiative
    /\ cancel_returned = "True"
    /\ cancel_calls = 1
    /\ message_tasks = <<>>
    /\ detached_tasks = {}

\* the id is not in the registry, or the task registered under it is done
UnknownOrDone(task_id) ==
    task_id \notin DOMAIN message_tasks \/ message_tasks[task_id].pc = "finished"

\* C16: cancel_task with an id that is not registered, or whose task is done,
\* returns False and changes neither the registry nor any task nor the state
\* of the dialogue, at the first call and at every later one.
C16_CancelOfUnknownOrDoneIsNoOp ==
    [][\A task_id \in CancelIds :
          CancelTask(task_id) /\ UnknownOrDone(task_id) =>
             /\ cancel_returned' = "False"
             /\ message_tasks' = message_tasks
             /\ detached_tasks' = detached_tasks
             /\ UNCHANGED <<core_vars, loop_vars>>]_vars

\* cancel_task has been called twice and has returned False, a done task is
\* still registered, and no task on the event loop has been cancelled
C16_Witness ==
    /\ cancel_calls = 2
    /\ cancel_returned = "False"
    /\ FinishedRegistered
    /\ \A ref \in TaskRefs :
          ~TaskAt(ref).must_cancel /\ TaskAt(ref).ended # "cancelled"

\* the step ends the task registered under id with an exception of its action
ActionRaisedIn(id) ==
    /\ id \in DOMAIN message_tasks
    /\ id \in DOMAIN message_tasks'
    /\ message_tasks[id].pc = "sleeping"
    /\ message_tasks'[id].pc = "finished"
    /\ message_tasks'[id].ended = "raised"

\* C17: an exception of the action of one task ends that task and nothing
\* else: the poller and the two other loops are as they were, the registry
\* holds the same ids, every other task is as it was (so it fires when its own
\* delay has run out), and the dialogue state is untouched.
C17_ExceptionStaysInItsTask ==
    [][\A id \in DOMAIN message_tasks :
          ActionRaisedIn(id) =>
             /\ DOMAIN message_tasks' = DOMAIN message_tasks
             /\ \A other \in DOMAIN message_tasks \ {id} :
                   message_tasks'[other] = message_tasks[other]
             /\ detached_tasks' = detached_tasks
             /\ UNCHANGED <<core_vars, loop_vars>>]_vars

\* the action of a greeting has raised, and the nudge of the same user, which
\* was pending beside it, is in its action
C17_Witness ==
    \E id, other \in DOMAIN message_tasks :
       /\ KindOf(id) = "greeting"
       /\ message_tasks[id].ended = "raised"
       /\ KindOf(other) = "initiative"
       /\ message_tasks[other].pc \in {"generating", "typing"}
       /\ poller.status = "running"

\* the escalation state of the user holds the count the nudge fired with
EscalationAdvanced(user_id, next_count) ==
    /\ user_id \in DOMAIN consecutive_message_count
    /\ consecutive_message_count[user_id] >= next_count
    /\ user_id \in DOMAIN last_initiative_types
    /\ last_initiative_types[user_id].count >= next_count

\* C18: a nudge that has delivered a segment and is done has advanced the
\* escalation state of its user; a cancelled action has delivered nothing.
C18_NoDeliveryWithoutEscalation ==
    \A ref \in TaskRefs :
       LET task == TaskAt(ref)
       IN  /\ KindOf(TaskIdOf(ref)) = "initiative"
           /\ task.pc = "finished"
           /\ task.segments > 0
           => EscalationAdvanced(task.user_id, task.next_count)

\* C19: once terminate() has completed the poller runs no more, and every
\* task that was pending is done or is being cancelled: none is left to
\* sleep, to generate or to send.
C19_ShutdownCancelsPending ==
    terminated =>
       /\ poller.status # "running"
       /\ \A ref \in TaskRefs :
             TaskAt(ref).pc = "finished" \/ TaskAt(ref).must_cancel

\* the step leaves every task that stays registered in its place: no entry of
\* a task that has begun is taken by a new task, and no task is pushed out of
\* the registry by a schedule_task with its id
KeepsEntries ==
    /\ \A id \in DOMAIN message_tasks \cap DOMAIN message_tasks' :
          message_tasks[id].started => message_tasks'[id].started
    /\ detached_tasks' = {}

\* C20: no schedule_task meets an id that is registered.  The ids of the
\* poller, of the daily-share check and of the greeting check differ in
\* their first part, and two ids of one scheduler for one user differ in the
\* second they were composed in: no pending entry is overwritten.
C20_NoPendingEntryOverwritten == [][KeepsEntries]_vars

\* two shares of the same user are pending at once, under ids that differ in
\* the second only, beside a nudge of that user
C20_Witness ==
    \E id, other, third \in DOMAIN message_tasks :
       /\ id # other
       /\ KindOf(id) = "sharing" /\ KindOf(other) = "sharing"
       /\ id[2] = other[2]
       /\ KindOf(third) = "initiative" /\ third[2] = id[2]
       /\ \A t \in {id, other, third} : message_tasks[t].pc # "finished"

\* the step delivers a daily share to the user: the time of the last
\* delivery is a new one
ShareDeliveredTo(user_id) ==
    /\ user_id \in DOMAIN last_share_sent'
    /\ user_id \in DOMAIN last_share_sent
          => last_share_sent'[user_id] # last_share_sent[user_id]

\* C23: two daily shares are never delivered to one user less than
\* min_interval_minutes apart.
C23_SharesKeepMinInterval ==
    [][\A user_id \in DOMAIN last_share_sent :
          ShareDeliveredTo(user_id)
             => last_share_sent'[user_id] - last_share_sent[user_id]
                   >= min_interval_minutes * 60]_vars

\* the step enters _send_scheduled_message of a registered share and goes on
\* to generate_and_send_message
FiresShare(task_id) ==
    /\ task_id \in DOMAIN message_tasks'
    /\ KindOf(task_id) = "sharing"
    /\ message_tasks[task_id].pc = "sleeping"
    /\ message_tasks'[task_id].pc = "generating"

\* C24: a deferred share that fires while the last share delivered to its
\* user is less than min_interval_minutes old does not go on to send.
C24_CooldownRecheckedAtFiring ==
    [][\A task_id \in DOMAIN message_tasks :
          FiresShare(task_id) =>
             LET user_id == message_tasks[task_id].user_id
             IN  user_id \in DOMAIN last_share_sent
                    => now - last_share_sent[user_id] >= min_interval_minutes * 60]_vars

(* ------------------------------------------------------------------ *)
(* The deferred actions at firing                                      *)
(* ------------------------------------------------------------------ *)

\* the users of the pending actions: u1 is listed in the whitelist, u2 is not
FiringUsers == {"u1", "u2"}

\* the delays of the pending actions, in minutes
FiringDelays == {0, 1}

\* the ids of a nudge, a morning greeting and a daily share, composed at t
FiringIds(t) ==
    {<<kind, user_id, t>> : kind \in {"initiative", "morning", "sharing"},
                            user_id \in FiringUsers}

\* the registries that hold one or two scheduled actions
PendingRegistries(t) ==
    UNION {[ids -> {NewTask(user_id, delay) :
                       user_id \in FiringUsers, delay \in FiringDelays}] :
              ids \in {x \in SUBSET FiringIds(t) : Cardinality(x) \in 1..2}}

\* One or two actions wait for their delay while the loops that scheduled
\* them do nothing more; each task is for the user its id names.
FiringInit ==
    /\ now = morning_hour * 3600
    /\ user_records = <<>>
    /\ consecutive_message_count = <<>>
    /\ last_initiative_types = <<>>
    /\ users_received_initiative = {}
    /\ message_tasks \in PendingRegistries(now)
    /\ \A task_id \in DOMAIN message_tasks :
          message_tasks[task_id].user_id = task_id[2]
    /\ poller = [status |-> "disabled", wake |-> 0, held |-> FALSE]
    /\ just_reset = {}
    /\ EngineIdle

FiringNext ==
    \/ EngineAdvance
    \/ \E ref \in TaskRefs : DelayedTaskStart(ref)
    \/ \E ref \in TaskRefs : \E weather \in WeatherOutcomes : DelayedTaskRun(ref, weather)
    \/ \E ref \in TaskRefs : \E outcome \in EngineOutcomes :
          GenerateStep(ref, outcome) /\ UNCHANGED last_share_sent
    \/ \E ref \in TaskRefs : TypingStep(ref)
    \/ \E ref \in TaskRefs : RemoveTaskCallback(ref)

FiringSpec == FiringInit /\ [][FiringNext]_vars

\* the whitelist is enabled and does not list the user
Unlisted(user_id) == whitelist_enabled /\ user_id \notin whitelist_users

\* the action of the task has neither generated nor sent anything
NothingSent(task) ==
    /\ task.pc \in {"sleeping", "finished"}
    /\ task.segments = 0
    /\ task.pc = "finished" => task.ended = "returned"

\* the step is the firing of an action of a user the whitelist does not list
FiresForUnlisted ==
    \E task_id \in DOMAIN message_tasks \cap DOMAIN message_tasks' :
       /\ Unlisted(message_tasks[task_id].user_id)
       /\ message_tasks[task_id].pc = "sleeping"
       /\ message_tasks[task_id].started
       /\ message_tasks'[task_id].pc # "sleeping"

\* C25: a nudge, a greeting or a daily share that fires for a user the
\* enabled whitelist does not list generates and delivers nothing and ends
\* by return; the step changes no count, record, mark or time, only the task
\* that has ended.
C25_FiringRechecksWhitelist ==
    /\ [](\A ref \in TaskRefs :
             Unlisted(TaskAt(ref).user_id) => NothingSent(TaskAt(ref)))
    /\ [][FiresForUnlisted =>
             UNCHANGED <<now, core_vars, loop_vars, last_share_sent,
                         just_reset, call_vars>>]_vars

\* a share of the unlisted u2 has fired after its delay and has ended having
\* sent nothing, beside a share of the listed u1 that was delivered
C25_Witness ==
    \E id, other \in DOMAIN message_tasks :
       /\ KindOf(id) = "sharing" /\ KindOf(other) = "sharing"
       /\ message_tasks[id].user_id = "u2"
       /\ message_tasks[id].delay = 1
       /\ now >= message_tasks[id].wake
       /\ message_tasks[id].pc = "finished"
       /\ message_tasks[id].ended = "returned"
       /\ message_tasks[id].segments = 0
       /\ message_tasks[other].user_id = "u1"
       /\ message_tasks[other].segments = 1

(* ------------------------------------------------------------------ *)
(* The stored file: load_data_from_storage and save_data_to_storage    *)
(* ------------------------------------------------------------------ *)

\* the users of the stored maps
StorageUsers == {"u1", "u2"}

\* datetime.datetime.now() while the file is loaded, in seconds
StorageNow == 100

\* A datetime is <<"dt", seconds, microsecond>>; a str of the file is
\* <<"str", ...>> and a number of the file <<"num", n>>.
StoredTimes == {<<"dt", 10, 0>>, <<"dt", 20, 5>>}

\* isoformat() without the fraction of the second
isoformat_seconds(value) == <<"str", value[2]>>

\* isoformat() ends with the seconds when microsecond is 0 and with the
\* fraction of six digits otherwise
isoformat(value) ==
    IF value[3] = 0 THEN <<"str", value[2]>>
    ELSE <<"str", value[2], value[3]>>

\* the str is one that fromisoformat accepts: it holds the date and the time
IsIsoText(text) == Len(text) \in {2, 3}

\* datetime.datetime.fromisoformat(text) of such a str
fromisoformat(text) ==
    IF Len(text) = 2 THEN <<"dt", text[2], 0>>
    ELSE <<"dt", text[2], text[3]>>

\* a str that fromisoformat rejects with ValueError, and a number
NotIsoText == <<"str">>
NumberValue == <<"num", 7>>

\* The value of one key as _prepare_records_for_save copies it: a datetime
\* becomes its isoformat(), every other value is copied.  The datetimes of
\* the stored maps are the values of the key "timestamp" and the values of
\* last_sharing_time.
PrepareValue(value) == IF value[1] = "dt" THEN isoformat(value) ELSE value

\* the recursion into a record of a map
PrepareRecord(record) ==
    [key \in DOMAIN record |->
        IF key = "timestamp" THEN PrepareValue(record[key]) ELSE record[key]]

\* _prepare_records_for_save of a map of records
PrepareRecords(records) ==
    [key \in DOMAIN records |-> PrepareRecord(records[key])]

\* the six maps of the plugin that reach the file
Memory ==
    [user_records |-> user_records,
     last_initiative_messages |-> last_initiative_messages,
     users_received_initiative |-> users_received_initiative,
     consecutive_message_count |-> consecutive_message_count,
     last_initiative_types |-> last_initiative_types,
     last_sharing_time |-> last_sharing_time]

\* data_to_save of save_data_to_storage; nulls names the keys whose value is
\* the JSON null, which the plugin never writes
DataToSave(memory) ==
    [user_records |-> PrepareRecords(memory.user_records),
     last_initiative_messages |-> PrepareRecords(memory.last_initiative_messages),
     users_received_initiative |-> SetToSeq(memory.users_received_initiative),
     consecutive_message_count |-> memory.consecutive_message_count,
     last_initiative_types |-> PrepareRecords(memory.last_initiative_types),
     random_daily_data |->
        [last_sharing_time |->
            [key \in DOMAIN memory.last_sharing_time |->
                PrepareValue(memory.last_sharing_time[key])]],
     nulls |-> {}]

\* the file after a json.dump that ran to its end
FileOf(memory) == [kind |-> "json", data |-> DataToSave(memory)]

\* stored_data.get(key, default)
StoredGet(data, key, default) == IF key \in DOMAIN data THEN data[key] ELSE default

\* The conversion of one record in load_data_from_storage: a timestamp that
\* is a str is parsed, and replaced by now when fromisoformat raises
\* ValueError; a timestamp that is no str stays.
LoadRecord(record) ==
    IF "timestamp" \in DOMAIN record /\ record.timestamp[1] = "str"
    THEN [record EXCEPT !.timestamp =
             IF IsIsoText(@) THEN fromisoformat(@) ELSE <<"dt", now, 0>>]
    ELSE record

\* the conversion of a map of records
LoadRecords(records) == [key \in DOMAIN records |-> LoadRecord(records[key])]

\* the conversion of random_daily_data["last_sharing_time"]
LoadSharingTimes(times) ==
    [key \in DOMAIN times |->
        IF times[key][1] = "str"
        THEN IF IsIsoText(times[key]) THEN fromisoformat(times[key])
             ELSE <<"dt", now, 0>>
        ELSE times[key]]

\* logger.warning of the branch of last_sharing_time: the only substitution
\* of "now" that is logged
SubstitutionWarnings(data) ==
    IF "random_daily_data" \in DOMAIN data
       /\ "last_sharing_time" \in DOMAIN data.random_daily_data
    THEN {[level |-> "warning", key |-> "last_sharing_time", user_id |-> u] :
             u \in {k \in DOMAIN data.random_daily_data.last_sharing_time :
                       LET text == data.random_daily_data.last_sharing_time[k]
                       IN  text[1] = "str" /\ ~IsIsoText(text)}}
    ELSE {}

\* The conversions raise before set_data is reached: .items() of a null,
\* "timestamp" in a record that is a number, set() of a null.
ConversionRaises(data) ==
    \/ data.nulls \cap {"user_records", "last_initiative_messages",
                        "last_initiative_types", "random_daily_data",
                        "users_received_initiative"} # {}
    \/ "user_records" \in DOMAIN data
       /\ \E i \in DOMAIN data.user_records : data.user_records[i].shape = "number"

\* set_data of the core as load_data_from_storage calls it, and set_data of
\* the daily shares: what the six maps are afterwards.  A map the file does
\* not name is replaced by an empty one; consecutive_message_count stays when
\* the file holds null for it ("is not None").
LoadedMemory(data, memory) ==
    [user_records |-> LoadRecords(StoredGet(data, "user_records", <<>>)),
     last_initiative_messages |->
        LoadRecords(StoredGet(data, "last_initiative_messages", <<>>)),
     users_received_initiative |->
        SeqRange(StoredGet(data, "users_received_initiative", <<>>)),
     consecutive_message_count |->
        IF "consecutive_message_count" \in data.nulls
        THEN memory.consecutive_message_count
        ELSE StoredGet(data, "consecutive_message_count", <<>>),
     last_initiative_types |->
        LoadRecords(StoredGet(data, "last_initiative_types", <<>>)),
     last_sharing_time |->
        IF "random_daily_data" \in DOMAIN data
        THEN LoadSharingTimes(StoredGet(data.random_daily_data,
                                        "last_sharing_time", <<>>))
        ELSE memory.last_sharing_time]

\* load_data_from_storage from its first line to its return: the maps and
\* the log afterwards.  No file: nothing is read.  A file that json.load
\* rejects, or a conversion that raises: the exception is logged and the
\* maps stay.
LoadOutcome(file, memory) ==
    IF file.kind = "absent"
    THEN [memory |-> memory, log |-> {[level |-> "info", key |-> "loaded"]}]
    ELSE IF file.kind = "partial" \/ ConversionRaises(file.data)
    THEN [memory |-> memory, log |-> {[level |-> "error", key |-> "load"]}]
    ELSE [memory |-> LoadedMemory(file.data, memory),
          log |-> SubstitutionWarnings(file.data)
                  \cup {[level |-> "info", key |-> "loaded"]}]

\* the six maps become those of the record
SetMemory(memory) ==
    /\ user_records' = memory.user_records
    /\ last_initiative_messages' = memory.last_initiative_messages
    /\ users_received_initiative' = memory.users_received_initiative
    /\ consecutive_message_count' = memory.consecutive_message_count
    /\ last_initiative_types' = memory.last_initiative_types
    /\ last_sharing_time' = memory.last_sharing_time

\* what load and save leave alone
storage_frame == <<now, message_tasks, poller, just_reset, detached_tasks,
                   cancel_returned, cancel_calls, terminated, greeting_task,
                   morning_triggered, night_triggered, today_morning_users,
                   today_night_users, daily_task, last_share_sent, fn_call,
                   fn_result, last_check_date, night_time, nudge_log>>

\* the six maps
memory_vars == <<user_records, last_initiative_messages,
                 users_received_initiative, consecutive_message_count,
                 last_initiative_types, last_sharing_time>>

\* load_data_from_storage, called once by __init__
LoadDataFromStorage ==
    /\ storage_pc.at = "start"
    /\ LET out == LoadOutcome(data_file, Memory)
       IN  /\ SetMemory(out.memory)
           /\ storage_log' = storage_log \cup out.log
    /\ storage_pc' = [at |-> "loaded"]
    /\ UNCHANGED <<data_file, storage_frame>>

\* save_data_to_storage up to open(self.data_file, "w"): data_to_save is
\* built and the file is opened for writing, which empties it.  before is
\* the file as the save found it (history).
SaveOpen ==
    /\ storage_pc.at = "loaded"
    /\ data_file' = [kind |-> "partial"]
    /\ storage_pc' = [at |-> "writing", before |-> data_file]
    /\ UNCHANGED <<memory_vars, storage_log, storage_frame>>

\* json.dump has written every chunk and the file is closed
SaveDump ==
    /\ storage_pc.at = "writing"
    /\ data_file' = FileOf(Memory)
    /\ storage_pc' = [at |-> "loaded"]
    /\ storage_log' = storage_log \cup {[level |-> "info", key |-> "saved"]}
    /\ UNCHANGED <<memory_vars, storage_frame>>

\* how a save can end before json.dump has written every chunk: the process
\* is killed, or a write raises (OSError of a full disk, TypeError of a value
\* json cannot encode) and "except Exception" logs it
SaveInterrupts == {"killed", "raised"}

\* json.dump does not reach its end: what was written stays in the file
SaveInterrupted(how) ==
    /\ storage_pc.at = "writing"
    /\ storage_pc' = [at |-> "interrupted", before |-> storage_pc.before,
                      how |-> how]
    /\ storage_log' = IF how = "raised"
                      THEN storage_log \cup {[level |-> "error", key |-> "save"]}
                      ELSE storage_log
    /\ UNCHANGED <<data_file, memory_vars, storage_frame>>

\* the maps of a plugin that was just constructed
NewMemory ==
    [user_records |-> <<>>, last_initiative_messages |-> <<>>,
     users_received_initiative |-> {}, consecutive_message_count |-> <<>>,
     last_initiative_types |-> <<>>, last_sharing_time |-> <<>>]

\* The process ends, with or without a save before, and the plugin is
\* constructed anew: __init__ makes empty maps and is about to load.
Restart ==
    /\ storage_pc.at \in {"loaded", "interrupted"}
    /\ SetMemory(NewMemory)
    /\ storage_pc' = [at |-> "start"]
    /\ storage_log' = {}
    /\ UNCHANGED <<data_file, storage_frame>>

\* the records of user_records for the users, in one order, time stamped t
RecordsOf(users, t) ==
    LET ids == SetToSeq(users)
    IN  [i \in 1..Len(ids) |-> [user_id |-> ids[i], timestamp |-> t, shape |-> "ok"]]

\* the maps of a plugin that tracks the users of tracked and has nudged the
\* users of nudged count times, at t
MemoryOf(tracked, nudged, t, count) ==
    [user_records |-> RecordsOf(tracked, t),
     last_initiative_messages |->
        [u \in nudged |-> [timestamp |-> t, shape |-> "ok"]],
     users_received_initiative |-> nudged,
     consecutive_message_count |-> [u \in nudged |-> count],
     last_initiative_types |-> [u \in nudged |-> [count |-> count, timestamp |-> t]],
     last_sharing_time |-> [u \in tracked |-> t]]

\* the largest stored count
MaxStoredCount == 2

\* the states of the maps the file is saved from and loaded over
MemoryStates ==
    {MemoryOf(tracked, nudged, t, count) :
        tracked \in SUBSET StorageUsers, nudged \in SUBSET StorageUsers,
        t \in StoredTimes, count \in {MaxStoredCount}}

\* the file of a plugin that tracks u1 and has nudged u1
BaseData == DataToSave(MemoryOf({"u1"}, {"u1"}, <<"dt", 20, 5>>, MaxStoredCount))

\* a timestamp of u1 in the map of the key is replaced
WithTimestamp(data, key, value) ==
    IF key = "user_records"
    THEN [data EXCEPT !.user_records[1].timestamp = value]
    ELSE IF key = "last_sharing_time"
    THEN [data EXCEPT !.random_daily_data.last_sharing_time["u1"] = value]
    ELSE [data EXCEPT ![key]["u1"].timestamp = value]

\* the keys of the file that hold maps with time stamps
TimestampKeys == {"user_records", "last_initiative_messages",
                  "last_initiative_types", "last_sharing_time"}

\* the file without some of its keys
WithoutKeys(data, keys) == [key \in DOMAIN data \ keys |-> data[key]]

\* Files the plugin did not write this way: a timestamp that is a str
\* fromisoformat rejects, or a number, in one map or in all four; a key
\* whose value is null; a record that is a number; a file of an older
\* version without the two maps of the counts.
ForeignData ==
    {WithTimestamp(BaseData, key, value) :
        key \in TimestampKeys, value \in {NotIsoText, NumberValue}}
    \cup {WithTimestamp(WithTimestamp(WithTimestamp(WithTimestamp(
              BaseData, "user_records", NotIsoText),
              "last_initiative_messages", NotIsoText),
              "last_initiative_types", NotIsoText),
              "last_sharing_time", NotIsoText)}
    \cup {[WithoutKeys(BaseData, {key}) EXCEPT !.nulls = {key}] :
             key \in {"consecutive_message_count", "last_initiative_types",
                      "users_received_initiative"}}
    \cup {[BaseData EXCEPT !.user_records[1].shape = "number"]}
    \cup {WithoutKeys(BaseData, {"consecutive_message_count",
                                 "last_initiative_types", "random_daily_data"})}

\* what the file can be when the plugin starts
FileStates ==
    {[kind |-> "absent"], [kind |-> "partial"]}
    \cup {FileOf(memory) : memory \in MemoryStates}
    \cup {[kind |-> "json", data |-> data] : data \in ForeignData}

\* The plugin about to load (constructed by __init__, or the DataLoader of an
\* earlier instance called again) or running with its maps loaded, and a
\* stored file.
StorageInit ==
    /\ now = StorageNow
    /\ \E memory \in MemoryStates :
          /\ user_records = memory.user_records
          /\ last_initiative_messages = memory.last_initiative_messages
          /\ users_received_initiative = memory.users_received_initiative
          /\ consecutive_message_count = memory.consecutive_message_count
          /\ last_initiative_types = memory.last_initiative_types
          /\ last_sharing_time = memory.last_sharing_time
    /\ data_file \in FileStates
    /\ storage_pc \in {[at |-> "start"], [at |-> "loaded"]}
    /\ storage_log = {}
    /\ message_tasks = <<>>
    /\ poller = [status |-> "disabled", wake |-> 0, held |-> FALSE]
    /\ just_reset = {}
    /\ detached_tasks = {}
    /\ cancel_returned = None
    /\ cancel_calls = 0
    /\ terminated = FALSE
    /\ greeting_task = [status |-> "disabled", wake |-> 0]
    /\ morning_triggered = FALSE
    /\ night_triggered = FALSE
    /\ today_morning_users = {}
    /\ today_night_users = {}
    /\ daily_task = [status |-> "disabled", wake |-> 0]
    /\ last_share_sent = <<>>
    /\ GreetingsNew
    /\ NoNudgeLog
    /\ NoCall

StorageNext ==
    \/ LoadDataFromStorage
    \/ SaveOpen
    \/ SaveDump
    \/ \E how \in SaveInterrupts : SaveInterrupted(how)
    \/ Restart

StorageSpec == StorageInit /\ [][StorageNext]_vars

\* C26: a save that is interrupted, by the end of the process or by an
\* exception, leaves a complete file as the save found it.
C26_InterruptedSaveKeepsFile ==
    (storage_pc.at = "interrupted" /\ storage_pc.before.kind = "json")
       => data_file = storage_pc.before

\* the step is load_data_from_storage from its call to its return
LoadStep == storage_pc.at = "start" /\ storage_pc'.at = "loaded"

\* C27: load_data_from_storage applied to the file that
\* save_data_to_storage wrote from a state of the maps yields that state:
\* the same records with the same time stamps in user_records,
\* last_initiative_messages, last_initiative_types and last_sharing_time,
\* the same counts, and users_received_initiative as the same set.
C27_SaveThenLoadIsIdentity ==
    [][LoadStep =>
          \A memory \in MemoryStates :
             data_file = FileOf(memory) => Memory' = memory]_vars

\* the plugin was restarted and has loaded, into its empty maps, the file a
\* save had written: two users, time stamps with a fraction of the second
C27_Witness ==
    /\ storage_pc.at = "loaded"
    /\ [level |-> "info", key |-> "loaded"] \in storage_log
    /\ [level |-> "info", key |-> "saved"] \notin storage_log
    /\ data_file = FileOf(Memory)
    /\ users_received_initiative = {"u1", "u2"}
    /\ Len(user_records) = 2
    /\ user_records[1].timestamp = <<"dt", 20, 5>>
    /\ last_sharing_time["u2"] = <<"dt", 20, 5>>
    /\ last_initiative_types["u1"] = [count |-> MaxStoredCount,
                                      timestamp |-> <<"dt", 20, 5>>]

\* the timestamp of the user in the map of the key, in the file or in the
\* maps of the plugin
TimestampIn(maps, key, user_id) ==
    IF key = "user_records"
    THEN maps.user_records[CHOOSE i \in DOMAIN maps.user_records :
                              maps.user_records[i].user_id = user_id].timestamp
    ELSE IF key = "last_sharing_time"
    THEN maps.last_sharing_time[user_id]
    ELSE maps[key][user_id].timestamp

\* the users of the map of the key
UsersIn(maps, key) ==
    IF key = "user_records"
    THEN {maps.user_records[i].user_id : i \in DOMAIN maps.user_records}
    ELSE DOMAIN maps[key]

\* the file as a record of the four maps with time stamps
StoredMaps(data) ==
    [user_records |-> StoredGet(data, "user_records", <<>>),
     last_initiative_messages |-> StoredGet(data, "last_initiative_messages", <<>>),
     last_initiative_types |-> StoredGet(data, "last_initiative_types", <<>>),
     last_sharing_time |->
        IF "random_daily_data" \in DOMAIN data
        THEN StoredGet(data.random_daily_data, "last_sharing_time", <<>>)
        ELSE <<>>]

\* the timestamps of the file that are a str fromisoformat rejects
Unparsable(data) ==
    {<<key, user_id>> \in TimestampKeys \X StorageUsers :
        /\ user_id \in UsersIn(StoredMaps(data), key)
        /\ LET text == TimestampIn(StoredMaps(data), key, user_id)
           IN  text[1] = "str" /\ ~IsIsoText(text)}

\* the file is one json.load accepts and the conversions do not raise on
Loadable == data_file.kind = "json" /\ ~ConversionRaises(data_file.data)

\* the timestamp is replaced by now in the maps after the step, in a record
\* that is kept
ReplacedByNow(key, user_id) ==
    /\ user_id \in UsersIn(Memory', key)
    /\ TimestampIn(Memory', key, user_id) = <<"dt", now, 0>>

\* C28: on load every timestamp whose text does not parse is replaced by
\* the current time in a record that is kept, the rest of the file is
\* loaded, and the substitution is logged.
C28_UnparsableReplacedAndLogged ==
    [][(LoadStep /\ Loadable) =>
          \A pair \in Unparsable(data_file.data) :
             /\ ReplacedByNow(pair[1], pair[2])
             /\ [level |-> "warning", key |-> pair[1], user_id |-> pair[2]]
                   \in storage_log']_vars

\* the five maps of the core
CoreMaps(memory) ==
    [key \in {"user_records", "last_initiative_messages",
              "users_received_initiative", "consecutive_message_count",
              "last_initiative_types"} |-> memory[key]]

\* C29: when load_data_from_storage has returned, the five maps of the core
\* all hold what the file holds, or are all as they were.
C29_LoadReplacesAllOrNothing ==
    [][LoadStep =>
          \/ CoreMaps(Memory') = CoreMaps(Memory)
          \/ /\ Loadable
             /\ CoreMaps(Memory') = CoreMaps(LoadedMemory(data_file.data, NewMemory))]_vars

(* ------------------------------------------------------------------ *)
(* Calls of single functions                                           *)
(* ------------------------------------------------------------------ *)

\* the longest list of keys in a call
MaxListed == 3

\* the ids in the calls
FnUsers == {"u1", "u2", "u3"}

\* list(d.keys()): the lists of at most n ids without a repetition
KeyLists(n) ==
    {seq \in UNION {[1..k -> FnUsers] : k \in 0..n} :
        \A i, j \in 1..Len(seq) : i # j => seq[i] # seq[j]}

\* The plugin before its loops are started: nothing is tracked and nothing
\* is scheduled.
Unstarted ==
    /\ now = 0
    /\ user_records = <<>>
    /\ consecutive_message_count = <<>>
    /\ last_initiative_types = <<>>
    /\ users_received_initiative = {}
    /\ message_tasks = <<>>
    /\ poller = [status |-> "disabled", wake |-> 0, held |-> FALSE]
    /\ just_reset = {}
    /\ detached_tasks = {}
    /\ cancel_returned = None
    /\ cancel_calls = 0
    /\ terminated = FALSE
    /\ greeting_task = [status |-> "disabled", wake |-> 0]
    /\ morning_triggered = FALSE
    /\ night_triggered = FALSE
    /\ today_morning_users = {}
    /\ today_night_users = {}
    /\ daily_task = [status |-> "disabled", wake |-> 0]
    /\ last_sharing_time = <<>>
    /\ last_share_sent = <<>>
    /\ GreetingsNew
    /\ NoNudgeLog
    /\ StorageIdle

\* what a call of a single function leaves alone
plugin_vars == <<now, user_records, consecutive_message_count,
                 last_initiative_types, users_received_initiative,
                 message_tasks, poller, just_reset, detached_tasks,
                 cancel_returned, cancel_calls, terminated, greeting_task,
                 morning_triggered, night_triggered, today_morning_users,
                 today_night_users, daily_task, last_sharing_time,
                 last_share_sent, last_initiative_messages, data_file,
                 storage_pc, storage_log, last_check_date, night_time,
                 nudge_log>>

\* the calls of get_eligible_users: the keys of user_records, the keys of
\* last_initiative_messages, the excluded set and the whitelist of the core
EligibleCalls ==
    [name : {"get_eligible_users"},
     record_ids : KeyLists(MaxListed),
     history_ids : KeyLists(MaxListed),
     excluded_users : SUBSET FnUsers,
     whitelist_enabled : BOOLEAN,
     whitelist_users : SUBSET FnUsers]

\* the call of get_eligible_users returns
CallGetEligibleUsers ==
    /\ fn_call.name = "get_eligible_users"
    /\ fn_result.of = "none"
    /\ fn_result' =
          [of |-> "get_eligible_users",
           value |-> get_eligible_users(fn_call.record_ids,
                                        fn_call.history_ids,
                                        fn_call.excluded_users,
                                        fn_call.whitelist_enabled,
                                        fn_call.whitelist_users)]
    /\ UNCHANGED <<fn_call, plugin_vars>>

\* a list names no id twice
DuplicateFree(seq) == \A i, j \in 1..Len(seq) : i # j => seq[i] # seq[j]

RatioDen == 10

\* the largest min_count in a call
MaxMinCount == 2

\* the calls of select_random_users: a list of candidates as
\* get_eligible_users returns it, a ratio in [0,1] and a min_count >= 0
SelectCalls ==
    [name : {"select_random_users"},
     eligible_users : KeyLists(MaxListed),
     ratio_num : 0..RatioDen,
     min_count : 0..MaxMinCount]

\* the call of select_random_users returns one of the samples
CallSelectRandomUsers ==
    /\ fn_call.name = "select_random_users"
    /\ fn_result.of = "none"
    /\ \E selected_users \in select_random_users(fn_call.eligible_users,
                                                 fn_call.ratio_num, RatioDen,
                                                 fn_call.min_count) :
          fn_result' = [of |-> "select_random_users", value |-> selected_users]
    /\ UNCHANGED <<fn_call, plugin_vars>>

\* floor(n * num / den): the largest integer that is not above the quotient
FloorOfRatio(n, num, den) ==
    CHOOSE f \in 0..n : f * den <= n * num /\ (f + 1) * den > n * num

\* min(n, max(min_count, floor(n * ratio)))
ExpectedLength(n, num, den, min_count) ==
    LET part == FloorOfRatio(n, num, den)
        wanted == IF min_count > part THEN min_count ELSE part
    IN  IF wanted < n THEN wanted ELSE n

\* C22: select_random_users returns a list without repetition whose entries
\* are candidates and whose length is min(n, max(min_count, floor(n * ratio)))
\* for n candidates; with no candidate it returns the empty list; ten
\* candidates, ratio 0.4 and min_count 1 give four.
C22_SampleOfExpectedLength ==
    /\ (fn_call.name = "select_random_users" /\ fn_result.of = "select_random_users") =>
          /\ Len(fn_result.value) =
                ExpectedLength(Len(fn_call.eligible_users), fn_call.ratio_num,
                               RatioDen, fn_call.min_count)
          /\ DuplicateFree(fn_result.value)
          /\ SeqRange(fn_result.value) \subseteq SeqRange(fn_call.eligible_users)
          /\ fn_call.eligible_users = <<>> => fn_result.value = <<>>
    /\ SampleSize(10, 4, 10, 1) = 4

\* three candidates: min_count decides the length (ratio 0.4 gives 1, two are
\* returned, in an order that is not the order of the candidates)
C22_Witness ==
    /\ fn_call.name = "select_random_users"
    /\ fn_result.of = "select_random_users"
    /\ fn_call.eligible_users = <<"u1", "u2", "u3">>
    /\ fn_call.ratio_num = 4
    /\ fn_call.min_count = 2
    /\ fn_result.value = <<"u3", "u1">>

\* the largest max_consecutive_messages in a call
MaxCap == 5

\* len(self.initiative_prompts)
PromptCount == 10

\* The branches that choose prompt_index in _send_initiative_message: the
\* values random.randint can return in the branch that is taken.
PromptIndexes(next_count, cap) ==
    IF next_count = 1 THEN 0..3
    ELSE IF next_count = 2 THEN 4..5
    ELSE IF next_count = cap THEN 8..9
    ELSE 6..7

\* prompt_index = min(prompt_index, len(self.initiative_prompts) - 1)
ClampIndex(prompt_index) ==
    IF prompt_index < PromptCount - 1 THEN prompt_index ELSE PromptCount - 1

\* The groups of initiative_prompts: four prompts of the first contact, two
\* of the middle phase, two of the late phase, two of the final phase.
PhaseOfPrompt(prompt_index) ==
    IF prompt_index <= 3 THEN "phase1"
    ELSE IF prompt_index <= 5 THEN "phase2"
    ELSE IF prompt_index <= 7 THEN "phase3"
    ELSE "final"

\* if next_count >= self.max_consecutive_messages: the context says that
\* this is the last contact
LastContactContext(next_count, cap) == next_count >= cap

\* the firings of _send_initiative_message that reach the choice of the
\* prompt: next_count is not above the cap
PromptCalls ==
    {c \in [name : {"select_prompt"},
            max_consecutive_messages : 1..MaxCap,
            next_count : 1..MaxCap] :
        c.next_count <= c.max_consecutive_messages}

\* the prompt and the context of one firing
CallSelectPrompt ==
    /\ fn_call.name = "select_prompt"
    /\ fn_result.of = "none"
    /\ \E prompt_index \in PromptIndexes(fn_call.next_count,
                                         fn_call.max_consecutive_messages) :
          fn_result' =
             [of |-> "select_prompt",
              prompt_index |-> ClampIndex(prompt_index),
              last_contact |-> LastContactContext(fn_call.next_count,
                                                  fn_call.max_consecutive_messages)]
    /\ UNCHANGED <<fn_call, plugin_vars>>

\* C30: for every cap and every count of 1..cap the prompt is one of the
\* final phase exactly when the count is the cap; below the cap count 1 has
\* a prompt of phase 1, count 2 one of phase 2 and a higher count one of
\* phase 3.
C30_FinalPhaseExactlyAtCap ==
    (fn_call.name = "select_prompt" /\ fn_result.of = "select_prompt") =>
       LET phase == PhaseOfPrompt(fn_result.prompt_index)
           count == fn_call.next_count
           cap == fn_call.max_consecutive_messages
       IN  /\ phase = "final" <=> count = cap
           /\ count < cap =>
                 phase = IF count = 1 THEN "phase1"
                         ELSE IF count = 2 THEN "phase2"
                         ELSE "phase3"

\* the largest delay_minutes, min_delay and max_delay in a call of
\* schedule_task
MaxDelayMinutes == 3

\* the largest max_response_delay_seconds configured in a call
MaxDelaySeconds == 125

\* the calls of schedule_task, as far as the delay goes
ScheduleCalls ==
    [name : {"schedule_task"},
     delay_minutes : 0..MaxDelayMinutes,
     random_delay : BOOLEAN,
     min_delay : 0..MaxDelayMinutes,
     max_delay : 0..MaxDelayMinutes]

\* the calls of schedule_task the poller makes, for a configured
\* max_response_delay_seconds: random_delay=True, min_delay=0,
\* max_delay=int(max_response_delay_seconds / 60), delay_minutes left at 0
NudgeScheduleCalls ==
    [name : {"schedule_nudge"},
     max_response_delay_seconds : 0..MaxDelaySeconds]

\* schedule_task computes actual_delay, or random.randint raises
CallScheduleTask ==
    /\ fn_call.name = "schedule_task"
    /\ fn_result.of = "none"
    /\ LET delays == actual_delays(fn_call.delay_minutes, fn_call.random_delay,
                                   fn_call.min_delay, fn_call.max_delay)
       IN  IF delays = {}
           THEN fn_result' = [of |-> "schedule_task", raised |-> TRUE]
           ELSE \E actual_delay \in delays :
                   fn_result' = [of |-> "schedule_task", raised |-> FALSE,
                                 actual_delay |-> actual_delay,
                                 seconds |-> SleepSeconds(actual_delay)]
    /\ UNCHANGED <<fn_call, plugin_vars>>

\* the poller schedules a nudge: schedule_task computes actual_delay
CallScheduleNudge ==
    /\ fn_call.name = "schedule_nudge"
    /\ fn_result.of = "none"
    /\ LET delays == actual_delays(0, TRUE, 0,
                         nudge_max_delay(fn_call.max_response_delay_seconds))
       IN  IF delays = {}
           THEN fn_result' = [of |-> "schedule_nudge", raised |-> TRUE]
           ELSE \E actual_delay \in delays :
                   fn_result' = [of |-> "schedule_nudge", raised |-> FALSE,
                                 actual_delay |-> actual_delay,
                                 seconds |-> SleepSeconds(actual_delay)]
    /\ UNCHANGED <<fn_call, plugin_vars>>

\* C31: the delay schedule_task chooses is, with random_delay, a whole number
\* of minutes in [min_delay, max_delay], and delay_minutes otherwise; the task
\* sleeps 60 seconds for each minute; and for a nudge, for every
\* max_response_delay_seconds >= 0, a delay is chosen and the seconds slept
\* lie in [0, max_response_delay_seconds].
C31_DelayWithinRange ==
    /\ (fn_call.name = "schedule_task" /\ fn_result.of = "schedule_task"
        /\ ~fn_result.raised) =>
          /\ fn_result.actual_delay \in Int
          /\ fn_call.random_delay =>
                /\ fn_call.min_delay <= fn_result.actual_delay
                /\ fn_result.actual_delay <= fn_call.max_delay
          /\ ~fn_call.random_delay =>
                fn_result.actual_delay = fn_call.delay_minutes
          /\ fn_result.seconds = 60 * fn_result.actual_delay
    /\ (fn_call.name = "schedule_nudge" /\ fn_result.of = "schedule_nudge") =>
          /\ ~fn_result.raised
          /\ 0 <= fn_result.seconds
          /\ fn_result.seconds <= fn_call.max_response_delay_seconds

\* a nudge with max_response_delay_seconds = 125 that sleeps the two minutes
\* of the longest delay, and none that sleeps longer
C31_Witness ==
    /\ fn_call.name = "schedule_nudge"
    /\ fn_result.of = "schedule_nudge"
    /\ fn_call.max_response_delay_seconds = 125
    /\ fn_result.actual_delay = 2
    /\ fn_result.seconds = 120

FunctionInit ==
    /\ Unstarted
    /\ fn_call \in EligibleCalls \cup SelectCalls \cup PromptCalls
                    \cup ScheduleCalls \cup NudgeScheduleCalls
    /\ fn_result = [of |-> "none"]

FunctionNext ==
    \/ CallGetEligibleUsers
    \/ CallSelectRandomUsers
    \/ CallSelectPrompt
    \/ CallScheduleTask
    \/ CallScheduleNudge

FunctionSpec == FunctionInit /\ [][FunctionNext]_vars

(* ------------------------------------------------------------------ *)
(* The nudges with their history: what was delivered, what was answered *)
(* ------------------------------------------------------------------ *)

\* History of a firing: a task that has left the registry is forgotten.
FiringLogged ==
    nudge_log' = [nudge_log EXCEPT !.answered = @ \cap DOMAIN message_tasks']

\* History of the end of a send action: generate_and_send_message has sent
\* the message (outcome "sent") or has not.
DeliveryLogged(task_id, outcome) ==
    LET user_id == message_tasks[task_id].user_id
        delivered == nudge_log.delivered
    IN  nudge_log' =
           [delivered |-> IF outcome = "sent"
                          THEN DictSet(delivered, user_id,
                                       DictGet(delivered, user_id, 0) + 1)
                          ELSE delivered,
            answered |-> nudge_log.answered \ {task_id}]

\* History of an event: a message that is handled starts the count of the
\* deliveries to its sender anew and marks the tasks of the sender that are
\* in the registry.
MessageLogged(event) ==
    nudge_log' =
       IF Filtered(event) THEN nudge_log
       ELSE [delivered |-> DictSet(nudge_log.delivered, event.sender_id, 0),
             answered |-> nudge_log.answered
                          \cup {id \in DOMAIN message_tasks :
                                   message_tasks[id].user_id = event.sender_id}]

\* The steps of Spec, with the history of the nudges kept.
NudgeNext ==
    \/ Advance /\ UNCHANGED engine_vars
    \/ \E current_hour \in HourSamples :
         \E delays \in [RecordKeys(user_records) -> RandomDelays(0, NudgeMaxDelay)] :
            PollerTick(current_hour, delays) /\ UNCHANGED engine_vars
    \/ StopChecking /\ UNCHANGED engine_vars
    \/ \E task_id \in DOMAIN message_tasks :
            SendFire(task_id) /\ FiringLogged /\ UNCHANGED quiet_vars
    \/ \E task_id \in DOMAIN message_tasks : \E outcome \in Outcomes :
            /\ SendComplete(task_id, outcome)
            /\ DeliveryLogged(task_id, outcome)
            /\ UNCHANGED quiet_vars
    \/ \E event \in Events :
            OnPrivateMessage(event) /\ MessageLogged(event) /\ UNCHANGED quiet_vars

NudgeSpec == Init /\ [][NudgeNext]_vars

\* C32: for every user, the nudges delivered to the user since the last
\* message of the user that was handled (or since the start) are at most
\* max_consecutive_messages, whatever the order of ticks, messages and send
\* actions, two send actions of one user in flight together included.
C32_DeliveriesWithinCap ==
    \A u \in DOMAIN nudge_log.delivered :
        nudge_log.delivered[u] <= max_consecutive_messages

C34_OneNudgeTaskPerUser ==
    \A u \in Senders :
        Cardinality({id \in TasksOf(message_tasks, u) : id[1] = "initiative"}) <= 1

\* C36: from empty maps on, every user with an entry in last_initiative_types
\* has the count of that entry in consecutive_message_count too, so that the
\* count the send action reads and the count the poller reads are the same
\* for every user.
C36_CountsAgree ==
    /\ \A u \in DOMAIN last_initiative_types :
          /\ u \in DOMAIN consecutive_message_count
          /\ last_initiative_types[u].count = consecutive_message_count[u]
    /\ \A u \in Senders :
          ReadCurrentCount(u) = DictGet(consecutive_message_count, u, 0)

\* C36 witness: u1 has had a nudge and has answered it: both counts were
\* written by the send action and then reset by the handler
C36_Witness ==
    /\ "u1" \in DOMAIN last_initiative_types
    /\ last_initiative_types["u1"].count = 0
    /\ "u1" \in just_reset

\* C37: from empty maps on, every user whose consecutive_message_count is
\* above 0 is in users_received_initiative, and the handling of a message of
\* a user leaves the count of the user at 0: no user stays at the cap after a
\* reply.
C37_CountedUsersAreMarked ==
    /\ [](\A u \in DOMAIN consecutive_message_count :
             consecutive_message_count[u] > 0 => u \in users_received_initiative)
    /\ [][\A u \in Senders :
            HandlesMessageOf(u) => DictGet(consecutive_message_count', u, 0) = 0]_vars

\* C37 witness: a message was not delivered (generate_and_send_message
\* returned False without marking the user), the count of u1 stands at the
\* cap all the same and u1 is marked
C37_Witness ==
    /\ DictGet(consecutive_message_count, "u1", 0) = max_consecutive_messages
    /\ "u1" \in users_received_initiative
    /\ nudge_log.delivered = <<>>


(* ------------------------------------------------------------------ *)
(* The poller and the nudges at the end of the active hours            *)
(* ------------------------------------------------------------------ *)

\* one minute before activity_end_hour: two sleeps of the poller
WindowStart == activity_end_hour * 3600 - 2 * PollSleepSeconds

\* The plugin was started one minute before the end of the active hours with
\* u1 tracked; the poller is in its first sleep.
WindowInit ==
    /\ now = WindowStart
    /\ user_records \in {<<[user_id |-> "u1", timestamp |-> t, shape |-> "ok"]>> :
                            t \in {now - PollSleepSeconds, now}}
    /\ consecutive_message_count = <<>>
    /\ last_initiative_types = <<>>
    /\ users_received_initiative = {}
    /\ message_tasks = <<>>
    /\ poller = [status |-> "running", wake |-> now + PollSleepSeconds, held |-> TRUE]
    /\ just_reset = {}
    /\ EngineIdle

\* the wall clock advances, as in Advance, from WindowStart on
WindowAdvance ==
    /\ now < WindowStart + MaxSteps * PollSleepSeconds
    /\ ~TimerDue
    /\ now' = now + PollSleepSeconds
    /\ UNCHANGED <<user_records, consecutive_message_count, last_initiative_types,
                   users_received_initiative, message_tasks, poller, just_reset>>

\* The steps of NudgeSpec with the hour the poller reads taken from the clock:
\* current_hour = datetime.datetime.now().hour
WindowNext ==
    \/ WindowAdvance /\ UNCHANGED engine_vars
    \/ \E delays \in [RecordKeys(user_records) -> RandomDelays(0, NudgeMaxDelay)] :
          PollerTick(HourOf(now), delays) /\ UNCHANGED engine_vars
    \/ \E task_id \in DOMAIN message_tasks :
          SendFire(task_id) /\ FiringLogged /\ UNCHANGED quiet_vars
    \/ \E task_id \in DOMAIN message_tasks : \E outcome \in Outcomes :
          /\ SendComplete(task_id, outcome)
          /\ DeliveryLogged(task_id, outcome)
          /\ UNCHANGED quiet_vars
    \/ \E event \in Events :
          OnPrivateMessage(event) /\ MessageLogged(event) /\ UNCHANGED quiet_vars

WindowSpec == WindowInit /\ [][WindowNext]_vars

\* C35: with the active-hours limit enabled no nudge is delivered at a time
\* whose hour is outside [activity_start_hour, activity_end_hour), the nudges
\* that were scheduled inside the window and fire after their delay included.
C35_NoDeliveryOutsideActiveHours ==
    [][\A id \in DOMAIN message_tasks :
         SendComplete(id, "sent") => ~HourOutsideWindow(HourOf(now))]_vars


(* ------------------------------------------------------------------ *)
(* The poller started and stopped                                      *)
(* ------------------------------------------------------------------ *)

\* start_checking_inactive_conversations: nothing when inactive_check_task is
\* not None; else a new task of the loop is created and held, and the loop
\* begins with its sleep
PollerStarted(p) ==
    IF p.held THEN p
    ELSE [status |-> "running", wake |-> now + PollSleepSeconds, held |-> TRUE]

\* a call of start_checking_inactive_conversations
StartChecking ==
    /\ poller' = PollerStarted(poller)
    /\ UNCHANGED <<now, user_records, consecutive_message_count,
                   last_initiative_types, users_received_initiative,
                   message_tasks, just_reset>>

\* The state after __init__: the task that is to call
\* start_checking_inactive_conversations is created and has not run, so no
\* loop was started.
LifecycleInit ==
    /\ now = 0
    /\ user_records \in LoadedRecords
    /\ consecutive_message_count = <<>>
    /\ last_initiative_types = <<>>
    /\ users_received_initiative = {}
    /\ message_tasks = <<>>
    /\ poller = [status |-> "disabled", wake |-> 0, held |-> FALSE]
    /\ just_reset = {}
    /\ EngineIdle

\* the steps of Spec and the calls that start the poller
LifecycleNext ==
    \/ Next
    \/ StartChecking /\ UNCHANGED engine_vars

LifecycleSpec == LifecycleInit /\ [][LifecycleNext]_vars

\* C38: a call of start_checking_inactive_conversations changes nothing if
\* and only if a loop of the poller is running; when none is running (never
\* started, stopped, ended by itself) the call starts one.
C38_StartIsNoOpIffRunning ==
    /\ (~ENABLED <<StartChecking>>_poller) <=> (poller.status = "running")
    /\ poller.status # "running" => PollerStarted(poller).status = "running"


(* ------------------------------------------------------------------ *)
(* The greeting loop over a calendar day                               *)
(* ------------------------------------------------------------------ *)

\* ticks of the greeting loop the clock runs for: two before the midnight of
\* day 1, the 2880 of day 1, two of day 2
MaxDayTicks == 2884

\* one minute before the midnight that ends day 0
DayStart == 86400 - 2 * GreetingSleepSeconds

\* settings of night_hour and night_minute: the default, a time with minutes
\* in hour 23, a time before hour 23
NightTimes == {[hour |-> 23, minute |-> 0], [hour |-> 23, minute |-> 30],
               [hour |-> 22, minute |-> 0]}

\* The plugin was started on day 0, one minute before midnight, with the
\* greetings enabled and u1 tracked; the greeting loop is about to take its
\* first turn.  The poller and the daily shares are left out.
GreetingDayInit ==
    /\ now = DayStart
    /\ MonitoredUser
    /\ users_received_initiative = {}
    /\ message_tasks = <<>>
    /\ poller = [status |-> "disabled", wake |-> 0, held |-> FALSE]
    /\ just_reset = {}
    /\ detached_tasks = {}
    /\ cancel_returned = None
    /\ cancel_calls = 0
    /\ terminated = FALSE
    /\ greeting_task = [status |-> "running", wake |-> now]
    /\ morning_triggered = FALSE
    /\ night_triggered = FALSE
    /\ today_morning_users = {}
    /\ today_night_users = {}
    /\ daily_task = [status |-> "disabled", wake |-> 0]
    /\ last_sharing_time = <<>>
    /\ last_share_sent = <<>>
    /\ last_check_date = DateOf(now)
    /\ night_time \in NightTimes
    /\ NoNudgeLog
    /\ NoCall
    /\ StorageIdle

\* the wall clock advances by one sleep of the greeting loop
GreetingDayAdvance ==
    /\ now < DayStart + MaxDayTicks * GreetingSleepSeconds
    /\ ~(greeting_task.status = "running" /\ now >= greeting_task.wake)
    /\ now' = now + GreetingSleepSeconds
    /\ UNCHANGED <<core_vars, loop_vars, idle_vars, message_tasks, detached_tasks,
                   call_vars>>

\* The greeting loop alone.  The tasks it schedules are not followed: their
\* action writes neither the flags nor the sets of the day, and the registry
\* keeps every task that was scheduled, under the second it was scheduled in.
GreetingDayNext ==
    \/ GreetingDayAdvance
    \/ EngineGreetingCheck

GreetingDaySpec == GreetingDayInit /\ [][GreetingDayNext]_vars

\* the greeting tasks of a type scheduled for a user on a date
GreetingTasksOn(greeting_type, user_id, date) ==
    {id \in DOMAIN message_tasks :
        id[1] = greeting_type /\ id[2] = user_id /\ DateOf(id[3]) = date}

\* the dates the clock passes
Dates == 0..2

\* C39: on every calendar day the greeting loop schedules for every user at
\* most one morning greeting task and at most one night greeting task; a user
\* a task was scheduled for today is in the set of the day; and the sets and
\* the flags of the day lose nothing unless the date has changed.
C39_OneGreetingPerDay ==
    /\ [](\A u \in Users : \A date \in Dates :
            /\ Cardinality(GreetingTasksOn("morning", u, date)) <= 1
            /\ Cardinality(GreetingTasksOn("night", u, date)) <= 1)
    /\ [](\A u \in Users :
            /\ GreetingTasksOn("morning", u, last_check_date) # {}
               => u \in today_morning_users /\ morning_triggered
            /\ GreetingTasksOn("night", u, last_check_date) # {}
               => u \in today_night_users /\ night_triggered)
    /\ [][(\/ morning_triggered /\ ~morning_triggered'
           \/ night_triggered /\ ~night_triggered'
           \/ ~(today_morning_users \subseteq today_morning_users')
           \/ ~(today_night_users \subseteq today_night_users'))
          => DateOf(now) # last_check_date]_vars

\* C39 witness: on day 1 u1 has had the morning task and the night task of
\* the day, both are noted, and the night time of the day is past
C39_Witness ==
    /\ last_check_date = 1
    /\ GreetingTasksOn("morning", "u1", 1) # {}
    /\ GreetingTasksOn("night", "u1", 1) # {}
    /\ "u1" \in today_morning_users \cap today_night_users
    /\ HourOf(now) = 23 /\ MinuteOf(now) = 59

\* minutes since midnight
MinuteOfDay(hour, minute) == hour * 60 + minute

\* C40: for every setting of night_hour and night_minute, the night
\* selection of a calendar day is never triggered at a time of day before
\* night_hour:night_minute of that day.
C40_NightNotBeforeNightTime ==
    [][(night_triggered' /\ (~night_triggered \/ DateOf(now) # last_check_date))
       => MinuteOfDay(HourOf(now), MinuteOf(now))
          >= MinuteOfDay(night_time.hour, night_time.minute)]_vars

====
